---- MODULE Spec2Model ----
(***************************************************************************)
(* A model of the Notion source connector (source-notion/src).             *)
(*                                                                         *)
(* Part I   the API client: RateLimiter, RetryHandler and                  *)
(*          NotionClient._request (client.py), with the error classifier   *)
(*          NotionAPIError.from_response (utils.py).                       *)
(*                                                                         *)
(* Time is counted in ticks.  One second is Second ticks and the limiter's *)
(* min_interval (1 / requests_per_second) is TicksPerInterval ticks.  The  *)
(* code reads the clock only to subtract _last_request_time from it, so    *)
(* the clock is kept as that difference; differences of Far ticks or more  *)
(* (Far > min_interval) are all kept as Far.                               *)
(***************************************************************************)
EXTENDS Integers, Sequences, FiniteSets, TLC

VARIABLES
    \* ---- the clock (time.time) and RateLimiter
    elapsed,             \* time.time() - RateLimiter._last_request_time, capped at Far
    stamp_count,         \* history: values the limiter recorded so far (0, 1, 2 = two or more)
    stamp_gap,           \* history: the last recorded value minus the one before, capped at Far
    \* ---- one NotionClient._request call
    max_retries,         \* RetryHandler.max_retries (from the configuration)
    pc,                  \* position of the caller inside _request
    attempt,             \* the for-loop variable of _request
    outcome,             \* what the latest session.request produced
    delay,               \* the delay computed for the pending backoff sleep
    result,              \* how the call ended: returned body or raised error
    http_attempts,       \* history: session.request calls of this call
    rl_waits,            \* history: wait_if_needed calls of this call
    backoffs,            \* history: backoff sleeps of this call
    seen,                \* history: kinds of the failed attempts of this call
    \* ---- RetryHandler.calculate_delay, called on its own
    cd_handler,          \* the RetryHandler (max_retries, base_delay, max_delay)
    cd_hint,             \* the retry_after argument
    cd_attempt,          \* the next attempt argument
    cd_arg,              \* history: the attempt argument of the latest call
    cd_delay,            \* the latest value returned, -1 before the first call
    cd_prev,             \* history: the value returned before that, or -1
    \* ---- one NotionClient._paginate generator and the listing it reads
    pg_pages,            \* the remote listing: the pages the service answers with
    pg_pc,               \* position of the generator
    pg_start_cursor,     \* start_cursor
    pg_data,             \* data: the page in hand
    pg_idx,              \* position of the next item of data["results"] to yield
    pg_yielded,          \* history: the items yielded so far
    pg_requests,         \* history: the pagination parameters of the requests sent
    \* ---- BaseStream._should_include_record, called on its own
    in_stream,           \* the stream class (name, cursor_field, supports_incremental)
    in_mode,             \* sync_mode
    in_record,           \* the record
    in_state,            \* StreamState._state["last_sync_time"]
    in_result,           \* what the call produced: "include", "exclude", an exception
    \* ---- one read_records pass of the pages or the databases stream
    st_stream,           \* the stream class
    st_mode,             \* sync_mode
    st_remote,           \* the records the client's iterator yields, in order
    st_state,            \* StreamState._state["last_sync_time"] of the stream
    st_state0,           \* history: st_state when the pass began
    st_start_date,       \* config.start_date
    st_pc,               \* position of the generator
    st_pos,              \* records taken from the client's iterator and dealt with
    st_latest,           \* latest_time
    st_records_read,     \* self._records_read
    st_emitted,          \* history: the records yielded
    st_error,            \* the exception that ended the pass, if one did
    \* ---- one read_records pass of the blocks or the comments stream
    nb_stream,           \* the stream class
    nb_mode,             \* sync_mode
    nb_state,            \* StreamState._state["last_sync_time"] of the stream
    nb_fetch_blocks,     \* config.fetch_blocks
    nb_pc,               \* position of the generator
    nb_page_id,          \* page_id of the page whose children are being read
    nb_children,         \* children taken from the current page's iterator
    nb_records_read,     \* self._records_read
    nb_pages,            \* history: per page taken, its id and how its fetch went
    nb_delivered,        \* history: the records the child iterators delivered
    nb_emitted,          \* history: the records yielded
    nb_logged,           \* history: messages logged by the except clause
    nb_error,            \* the exception that ended the pass, if one did
    \* ---- NotionClient.get_all_blocks on one page
    bt_parent,           \* the block tree: the parent of each block (0 is the page)
    bt_flag,             \* has_children of each block, as the API reports it
    bt_max_depth,        \* max_depth
    bt_stack,            \* the active _fetch_recursive generators, innermost last
    bt_pc,               \* "run", "done", "raised" (or "off")
    bt_yielded,          \* history: the blocks yielded, with _depth and _parent_id
    bt_listed,           \* history: the block ids whose children were requested
    \* ---- NotionSourceConnector.read, record by record
    rd_to_sync,          \* streams_to_sync
    rd_pc,               \* "next", "records", "done", "raised" (or "off")
    rd_idx,              \* position of the loop over streams_to_sync
    rd_count,            \* record_count
    rd_records,          \* history: RECORD messages of the current stream
    rd_states,           \* history: per STATE message of the current stream,
                         \*   the number of its RECORD messages before it
    rd_logs,             \* history: LOG messages of the current stream
    rd_outcomes,         \* history: how each stream run so far ended
    \* ---- NotionSourceConnector.read, stream by stream
    sl_sync,             \* config.sync_users .. config.sync_comments, by stream name
    sl_catalog,          \* the catalog argument
    sl_to_sync,          \* streams_to_sync
    sl_pages_stream,     \* whether the shared PagesStream was created
    sl_pc,               \* "select", "next", "done" (or "off")
    sl_idx,              \* position of the loop over streams_to_sync
    sl_ran,              \* history: the names of the streams run, in order
    \* ---- NotionAuthenticator and the credentials of its configuration
    au_credentials,      \* config.credentials: kind, access token, refresh_token
    au_session,          \* self._session
    au_made,             \* history: requests.Session objects created so far
    au_authenticated,    \* self._authenticated
    au_bot_info,         \* self._bot_info
    au_ops,              \* history: calls made on the authenticator so far
    au_last,             \* history: the latest call, what it met and how it ended
    au_before,           \* history: credentials, session and flag before that call
    au_request,          \* history: the latest /users/me request sent
    au_refreshed,        \* history: the latest successful refresh not yet followed by a request
    au_valid,            \* history: the latest validate() succeeded and no refresh succeeded since
    au_client,           \* Authorization of the session of a NotionClient made from the config
    au_client_request,   \* history: the latest request of that client
    \* ---- NotionSourceConnector.check
    ck_met,              \* what the /users/me request of validate() meets
    ck_pc,               \* "validate", "probe", "done", "raised" (or "off")
    ck_probe,            \* how list(self.client.list_users()) ended, once called
    ck_status,           \* connectionStatus.status of the returned message
    ck_message,          \* connectionStatus.message of the returned message
    \* ---- NotionConfig: the two retry delays, in tenths of a second
    cf_pc,               \* "new", "built", "rejected" (or "off")
    cf_base_retry_delay, \* config.base_retry_delay
    cf_max_retry_delay,  \* config.max_retry_delay
    cf_last,             \* history: the latest construction or assignment
    \* ---- run_connector
    rn_files,            \* the config, catalog and state files: "none", "good", "bad"
    rn_command,          \* the command argument
    rn_pc,               \* "config", "catalog", "state", "command", "close", "returned", "raised" (or "off")
    rn_connector,        \* "none", "open" (constructed), "closed" (close() was called)
    rn_exit,             \* history: the step an exception left run_connector from
    \* ---- read() over the pages stream and the streams that depend on it
    sh_to_sync,          \* streams_to_sync
    sh_mode,             \* sync_mode
    sh_fetch_blocks,     \* config.fetch_blocks
    sh_remote,           \* the pages the remote service lists, in the order it lists them
    sh_input,            \* last_sync_time of the pages entry of the state argument
    sh_pages_state,      \* last_sync_time held by the StreamState of the pages stream
    sh_pc,               \* "next", "iter", "done" (or "off")
    sh_idx,              \* position of the loop over streams_to_sync
    sh_pos,              \* pages taken from the listing by the iteration in hand
    sh_latest,           \* latest_time of the pages pass in hand
    sh_iterated,         \* history: per stream, the ids of the pages its page iteration delivered
    sh_requests,         \* history: per stream, the requests its iteration sent
    sh_messages,         \* history: the messages read() yielded
    \* ---- NotionSourceConnector.discover
    dc_sync,             \* the five sync toggles of the configuration
    dc_pc,               \* "loop", "returned" (or "off")
    dc_idx,              \* position of the loop over enabled_streams
    dc_streams,          \* streams, the list the catalog is made of
    \* ---- read() with the state of its streams and the messages it yields
    ps_to_sync,          \* streams_to_sync
    ps_mode,             \* sync_mode
    ps_input,            \* the state argument: per stream its last_sync_time, or no entry
    ps_pc,               \* "next", "records", "done" (or "off")
    ps_idx,              \* position of the loop over streams_to_sync
    ps_state,            \* last_sync_time held by the StreamState of the stream in hand
    ps_latest,           \* latest_time / max_cursor_time of the pass in hand
    ps_count,            \* record_count
    ps_total,            \* history: records yielded by all streams so far
    ps_final_state,      \* final_state, the dict every STATE message is made of
    ps_messages,         \* history: the messages yielded, runs of RECORDs counted
    \* ---- get_all_blocks over a remote graph of blocks
    gr_children,         \* the remote graph: for the page and each block, its children listing
    gr_flag,             \* has_children of each block
    gr_max_depth,        \* max_depth
    gr_stack,            \* the nested _fetch_recursive generators, innermost last
    gr_pc,               \* "run", "done", "raised" (or "off")
    gr_yielded,          \* history: the blocks yielded, with their tags
    gr_listed            \* history: the ids whose children were asked for, with the depth

reqVars == <<elapsed, stamp_count, stamp_gap, max_retries, pc, attempt, outcome,
             delay, result, http_attempts, rl_waits, backoffs, seen>>
delayVars == <<cd_handler, cd_hint, cd_attempt, cd_arg, cd_delay, cd_prev>>

pagVars == <<pg_pages, pg_pc, pg_start_cursor, pg_data, pg_idx, pg_yielded,
             pg_requests>>

inclVars == <<in_stream, in_mode, in_record, in_state, in_result>>
streamVars == <<st_stream, st_mode, st_remote, st_state, st_state0, st_start_date,
                st_pc, st_pos,
                st_latest, st_records_read, st_emitted, st_error>>
nestedVars == <<nb_stream, nb_mode, nb_state, nb_fetch_blocks, nb_pc, nb_page_id,
                nb_children, nb_records_read, nb_pages, nb_delivered, nb_emitted,
                nb_logged, nb_error>>
treeVars == <<bt_parent, bt_flag, bt_max_depth, bt_stack, bt_pc, bt_yielded,
              bt_listed>>
readVars == <<rd_to_sync, rd_pc, rd_idx, rd_count, rd_records, rd_states, rd_logs,
              rd_outcomes>>
selectVars == <<sl_sync, sl_catalog, sl_to_sync, sl_pages_stream, sl_pc, sl_idx,
                sl_ran>>
authVars == <<au_credentials, au_session, au_made, au_authenticated, au_bot_info,
              au_ops, au_last, au_before, au_request, au_refreshed, au_valid,
              au_client, au_client_request>>
checkVars == <<ck_met, ck_pc, ck_probe, ck_status, ck_message>>
configVars == <<cf_pc, cf_base_retry_delay, cf_max_retry_delay, cf_last>>
runVars == <<rn_files, rn_command, rn_pc, rn_connector, rn_exit>>
sharedVars == <<sh_to_sync, sh_mode, sh_fetch_blocks, sh_remote, sh_input,
                sh_pages_state, sh_pc, sh_idx, sh_pos, sh_latest, sh_iterated,
                sh_requests, sh_messages>>
discoverVars == <<dc_sync, dc_pc, dc_idx, dc_streams>>
passVars == <<ps_to_sync, ps_mode, ps_input, ps_pc, ps_idx, ps_state, ps_latest,
              ps_count, ps_total, ps_final_state, ps_messages>>
graphVars == <<gr_children, gr_flag, gr_max_depth, gr_stack, gr_pc, gr_yielded,
               gr_listed>>

vars == <<reqVars, delayVars, pagVars, inclVars, streamVars, nestedVars,
        treeVars, readVars, selectVars, authVars, checkVars, configVars,
        runVars, sharedVars, discoverVars, passVars, graphVars>>

\* what the actions of one part leave alone
notReq == <<delayVars, pagVars, inclVars, streamVars, nestedVars, treeVars,
        readVars, selectVars, authVars, checkVars, configVars, runVars,
        sharedVars, discoverVars, passVars, graphVars>>
notDelay == <<reqVars, pagVars, inclVars, streamVars, nestedVars, treeVars,
        readVars, selectVars, authVars, checkVars, configVars, runVars,
        sharedVars, discoverVars, passVars, graphVars>>
notPag == <<reqVars, delayVars, inclVars, streamVars, nestedVars, treeVars,
        readVars, selectVars, authVars, checkVars, configVars, runVars,
        sharedVars, discoverVars, passVars, graphVars>>
notIncl == <<reqVars, delayVars, pagVars, streamVars, nestedVars, treeVars,
        readVars, selectVars, authVars, checkVars, configVars, runVars,
        sharedVars, discoverVars, passVars, graphVars>>
notStream == <<reqVars, delayVars, pagVars, inclVars, nestedVars, treeVars,
        readVars, selectVars, authVars, checkVars, configVars, runVars,
        sharedVars, discoverVars, passVars, graphVars>>
notNested == <<reqVars, delayVars, pagVars, inclVars, streamVars, treeVars,
        readVars, selectVars, authVars, checkVars, configVars, runVars,
        sharedVars, discoverVars, passVars, graphVars>>
notTree == <<reqVars, delayVars, pagVars, inclVars, streamVars, nestedVars,
        readVars, selectVars, authVars, checkVars, configVars, runVars,
        sharedVars, discoverVars, passVars, graphVars>>
notRead == <<reqVars, delayVars, pagVars, inclVars, streamVars, nestedVars,
        treeVars, selectVars, authVars, checkVars, configVars, runVars,
        sharedVars, discoverVars, passVars, graphVars>>
notSelect == <<reqVars, delayVars, pagVars, inclVars, streamVars, nestedVars,
        treeVars, readVars, authVars, checkVars, configVars, runVars,
        sharedVars, discoverVars, passVars, graphVars>>
notAuth == <<reqVars, delayVars, pagVars, inclVars, streamVars, nestedVars,
        treeVars, readVars, selectVars, checkVars, configVars, runVars,
        sharedVars, discoverVars, passVars, graphVars>>
notCheck == <<reqVars, delayVars, pagVars, inclVars, streamVars, nestedVars,
        treeVars, readVars, selectVars, authVars, configVars, runVars,
        sharedVars, discoverVars, passVars, graphVars>>
notConfig == <<reqVars, delayVars, pagVars, inclVars, streamVars, nestedVars,
        treeVars, readVars, selectVars, authVars, checkVars, runVars,
        sharedVars, discoverVars, passVars, graphVars>>
notRun == <<reqVars, delayVars, pagVars, inclVars, streamVars, nestedVars,
        treeVars, readVars, selectVars, authVars, checkVars, configVars,
        sharedVars, discoverVars, passVars, graphVars>>
notShared == <<reqVars, delayVars, pagVars, inclVars, streamVars, nestedVars,
        treeVars, readVars, selectVars, authVars, checkVars, configVars,
        runVars, discoverVars, passVars, graphVars>>
notDiscover == <<reqVars, delayVars, pagVars, inclVars, streamVars,
        nestedVars, treeVars, readVars, selectVars, authVars, checkVars,
        configVars, runVars, sharedVars, passVars, graphVars>>
notPass == <<reqVars, delayVars, pagVars, inclVars, streamVars, nestedVars,
        treeVars, readVars, selectVars, authVars, checkVars, configVars,
        runVars, sharedVars, discoverVars, graphVars>>
notGraph == <<reqVars, delayVars, pagVars, inclVars, streamVars, nestedVars,
        treeVars, readVars, selectVars, authVars, checkVars, configVars,
        runVars, sharedVars, discoverVars, passVars>>

-----------------------------------------------------------------------------
(* Bounds of the model *)

\* clock resolution: ticks in one min_interval of the rate limiter
TicksPerInterval == 2
\* largest configured max_retries explored (the configuration allows 1..10)
MaxRetriesBound == 2
\* largest overshoot of a sleep, latency of a request, in ticks
MaxJitter == 1
\* calculate_delay on its own: largest base_delay, max_delay, retry_after
\* and attempt it is applied to
MaxBaseDelay == 3
MaxMaxDelay == 6
MaxHint == 7
MaxDelayAttempt == 4
\* a paginated listing: most pages, most items on one page
MaxPages == 3
MaxPageItems == 2
\* most records a listing holds in one read pass
MaxRecords == 3
\* most pages the page iterator of a blocks or comments pass yields
MaxNestedPages == 2
\* most records the child iterator of one page delivers
MaxChildren == 1
\* most blocks in the tree under one page
MaxBlocks == 4
\* largest max_depth tried (the configuration allows 1..10)
MaxDepthBound == 2
\* most records one stream yields to the driver
MaxStreamRecords == 250
\* most streams in streams_to_sync
MaxSelected == 2
\* most entries in the "streams" list of a catalog
MaxCatalog == 2
\* most calls made on one authenticator
MaxAuthOps == 3
\* pages in the listing the dependent streams iterate
MaxSharedPages == 2
\* most records yielded in one read() whose messages are kept
MaxPassRecords == 101
\* most records of every stream of a read() but one
MaxShortRecords == 2
\* largest max_depth tried over graphs with cycles
MaxGraphDepth == 3

-----------------------------------------------------------------------------
(* Helpers *)

Min(a, b) == IF a <= b THEN a ELSE b

RECURSIVE Pow2(_)
Pow2(n) == IF n <= 0 THEN 1 ELSE 2 * Pow2(n - 1)

\* Optional[float]: None, or a number of ticks
NoneF == [some |-> FALSE, v |-> 0]
SomeF(x) == [some |-> TRUE, v |-> x]

-----------------------------------------------------------------------------
(* Configuration and time base *)

\* RateLimiter(requests_per_second=3.0)
requests_per_second == 3

Second == TicksPerInterval * requests_per_second

\* self.min_interval = 1.0 / requests_per_second
min_interval == Second \div requests_per_second

\* the cap of the clock differences the model keeps
Far == 2 * min_interval

\* the clock after `d` more ticks
Later(e, d) == Min(Far, e + d)

\* NotionConfig.base_retry_delay, default 1.0 s
base_retry_delay == Second

\* NotionConfig.max_retry_delay, default 60.0 s
max_retry_delay == 60 * Second

\* the retry handler NotionClient.__init__ builds from the configuration
Handler(mr) ==
    [max_retries |-> mr, base_delay |-> base_retry_delay, max_delay |-> max_retry_delay]

-----------------------------------------------------------------------------
(* What the remote service can answer *)

\* response.headers.get("Retry-After") returns None for this one
NoHeader == "<absent>"

\* Retry-After header values: absent, empty, delta-seconds, an HTTP-date
HttpDate == "Wed, 21 Oct 2015 07:28:00 GMT"
RetryAfterHeaders == {NoHeader, "", "0", "120", HttpDate}

\* float(text): the number of seconds, in ticks; ValueError for the HTTP-date
FloatParses(text) == text \in {"0", "120"}
FloatOf(text) ==
    CASE text = "0" -> 0
      [] text = "120" -> 120 * Second
      [] OTHER -> 0

\* every HTTP status code
Statuses == 100 .. 599

\* the body of a response: a JSON object, or text that is not JSON
Bodies == {"json", "text"}

NoOutcome == [kind |-> "none", status |-> 0, retry_after |-> NoHeader, body |-> "json"]
TimeoutOutcome == [kind |-> "timeout", status |-> 0, retry_after |-> NoHeader, body |-> "json"]
ConnectionOutcome ==
    [kind |-> "connection", status |-> 0, retry_after |-> NoHeader, body |-> "json"]
Response(s, h, b) == [kind |-> "response", status |-> s, retry_after |-> h, body |-> b]

\* The Retry-After header is read for 429 alone (client.py 229, utils.py 84);
\* it is varied on 429 and on 503.  The body decides the outcome of
\* response.json() on a success alone, and is varied there.
Responses ==
    {Response(s, h, "json") : s \in {429, 503}, h \in RetryAfterHeaders}
    \cup {Response(s, NoHeader, b) : s \in {t \in Statuses : t < 400}, b \in Bodies}
    \cup {Response(s, NoHeader, "json") : s \in {t \in Statuses : t >= 400}}

Outcomes == Responses \cup {TimeoutOutcome, ConnectionOutcome}

\* requests.Response.ok: no 4xx or 5xx status
ResponseOk(r) == r.status < 400

-----------------------------------------------------------------------------
(* RetryHandler, client.py 63-146 *)

RETRYABLE_STATUS_CODES == {429, 500, 502, 503, 504}

\* a calculate_delay that forgets the cap on the exponential branch
calculate_delay_uncapped(h, att, retry_after) ==
    IF retry_after.some THEN Min(retry_after.v, h.max_delay)
    ELSE h.base_delay * Pow2(att)

calculate_delay(h, att, retry_after) ==
    LET d == IF retry_after.some THEN retry_after.v ELSE h.base_delay * Pow2(att)
    IN  Min(d, h.max_delay)

should_retry(r) == r.status \in RETRYABLE_STATUS_CODES

get_retry_after(r) ==
    IF r.retry_after # NoHeader /\ r.retry_after # ""
    THEN IF FloatParses(r.retry_after) THEN SomeF(FloatOf(r.retry_after)) ELSE NoneF
    ELSE NoneF

-----------------------------------------------------------------------------
(* NotionAPIError.from_response, utils.py 58-96 *)

\* how a call ends: "return", or the class of the exception that escapes
NoResult == [kind |-> "none", status_code |-> 0, attempts |-> 0]
Returned == [kind |-> "return", status_code |-> 0, attempts |-> 0]
Raise(k, s, n) == [kind |-> k, status_code |-> s, attempts |-> n]

\* the exception class chosen by status code
ErrorClass(s) ==
    CASE s = 401 -> "NotionAuthenticationError"
      [] s = 429 -> "NotionRateLimitError"
      [] s = 400 -> "NotionValidationError"
      [] s = 404 -> "NotionNotFoundError"
      [] s = 403 -> "NotionPermissionError"
      [] OTHER -> "NotionAPIError"

\* what `raise NotionAPIError.from_response(response)` raises: the classified
\* error, or the ValueError of float(retry_after) inside the 429 branch
from_response(r) ==
    IF r.status = 429 /\ r.retry_after # NoHeader /\ r.retry_after # ""
       /\ ~FloatParses(r.retry_after)
    THEN Raise("ValueError", 0, 0)
    ELSE Raise(ErrorClass(r.status), r.status, 0)

-----------------------------------------------------------------------------
(* RateLimiter.wait_if_needed, client.py 46-56 *)

\* a limiter that sleeps for the time elapsed, not for the rest of the interval
SleepTime_elapsed(e) == IF e < min_interval THEN e ELSE 0

\* sleep_time of line 52; nothing is slept when elapsed >= min_interval
SleepTime(e) == IF e < min_interval THEN min_interval - e ELSE 0

-----------------------------------------------------------------------------
(* NotionClient._request, client.py 184-286 *)

\* a retry that does not use up the loop variable
NextAttempt_same(att) == att

\* for attempt in range(max_retries + 1): the next value of the loop variable
NextAttempt(att) == att + 1

\* `attempt < self.retry_handler.max_retries`, lines 228, 242, 260, 273
AttemptsRemain(att, mr) == att < mr

\* `response.status_code == 429`, line 227
IsRateLimited(r) == r.status = 429

\* a loop that takes every error status for a server error
IsServerError_any(r) == r.status >= 400

\* `response.status_code >= 500`, line 241
IsServerError(r) == r.status >= 500

\* lines 226-283: what one attempt's outcome leads to:
\* sleep and continue, return the body, or raise
Decide(o, att, mr) ==
    LET h == Handler(mr) IN
    CASE o.kind = "timeout" ->
            IF AttemptsRemain(att, mr)
            THEN [next |-> "backoff", delay |-> calculate_delay(h, att, NoneF),
                  result |-> NoResult]
            ELSE [next |-> "raised", delay |-> 0,
                  result |-> Raise("NotionConnectionError", 0, att + 1)]
      [] o.kind = "connection" ->
            IF AttemptsRemain(att, mr)
            THEN [next |-> "backoff", delay |-> calculate_delay(h, att, NoneF),
                  result |-> NoResult]
            ELSE [next |-> "raised", delay |-> 0,
                  result |-> Raise("NotionConnectionError", 0, att + 1)]
      [] o.kind = "response" /\ IsRateLimited(o) ->
            IF AttemptsRemain(att, mr)
            THEN [next |-> "backoff",
                  delay |-> calculate_delay(h, att, get_retry_after(o)),
                  result |-> NoResult]
            ELSE [next |-> "raised", delay |-> 0, result |-> from_response(o)]
      [] o.kind = "response" /\ ~IsRateLimited(o) /\ IsServerError(o) ->
            IF AttemptsRemain(att, mr)
            THEN [next |-> "backoff", delay |-> calculate_delay(h, att, NoneF),
                  result |-> NoResult]
            ELSE [next |-> "raised", delay |-> 0, result |-> from_response(o)]
      [] o.kind = "response" /\ ~IsRateLimited(o) /\ ~IsServerError(o)
         /\ ~ResponseOk(o) ->
            [next |-> "raised", delay |-> 0, result |-> from_response(o)]
      [] OTHER ->
            \* return response.json(): JSONDecodeError when the body is no JSON
            IF o.body = "json"
            THEN [next |-> "returned", delay |-> 0, result |-> Returned]
            ELSE [next |-> "raised", delay |-> 0,
                  result |-> Raise("JSONDecodeError", 0, 0)]

\* the kind of a failed attempt, for the history variable `seen`
FailureKind(o) ==
    CASE o.kind = "timeout" -> "timeout"
      [] o.kind = "connection" -> "connection"
      [] o.kind = "response" /\ IsRateLimited(o) -> "429"
      [] o.kind = "response" /\ o.status >= 500 -> "5xx"
      [] o.kind = "response" /\ o.status >= 400 -> "4xx"
      [] OTHER -> "ok"

\* a caller enters _request, any time after the previous call: line 209-211
StartRequest ==
    /\ pc = "idle"
    /\ \E idle \in 0 .. Far : elapsed' = Later(elapsed, idle)
    /\ pc' = "rate_limit"
    /\ UNCHANGED <<stamp_count, stamp_gap, max_retries, attempt, outcome, delay,
                   result, http_attempts, rl_waits, backoffs, seen>>
    /\ UNCHANGED notReq

\* self.rate_limiter.wait_if_needed(), line 214 (client.py 46-56): sleep
\* for the rest of the interval, then record the clock
WaitIfNeeded ==
    /\ pc = "rate_limit"
    /\ \E over \in 0 .. MaxJitter :
          stamp_gap' = IF stamp_count = 0 THEN 0
                       ELSE Later(elapsed, SleepTime(elapsed) + over)
    /\ stamp_count' = Min(2, stamp_count + 1)
    /\ elapsed' = 0
    /\ rl_waits' = rl_waits + 1
    /\ pc' = "send"
    /\ UNCHANGED <<max_retries, attempt, outcome, delay, result, http_attempts,
                   backoffs, seen>>
    /\ UNCHANGED notReq

\* self.session.request(...) and the handling of what it produced, 217-283
Attempt ==
    /\ pc = "send"
    /\ \E o \in Outcomes, latency \in 0 .. MaxJitter :
          LET d == Decide(o, attempt, max_retries) IN
          /\ elapsed' = Later(elapsed, latency)
          /\ outcome' = o
          /\ pc' = d.next
          /\ delay' = d.delay
          /\ result' = d.result
          /\ seen' = IF FailureKind(o) = "ok" THEN seen ELSE seen \cup {FailureKind(o)}
    /\ http_attempts' = http_attempts + 1
    /\ UNCHANGED <<stamp_count, stamp_gap, max_retries, attempt, rl_waits, backoffs>>
    /\ UNCHANGED notReq

\* time.sleep(delay); continue.  Line 286 follows a loop that ran out.
\* `response` and `delay` are dead once the loop continues: both are
\* assigned again before they are read.
Backoff ==
    /\ pc = "backoff"
    /\ \E over \in 0 .. MaxJitter : elapsed' = Later(elapsed, delay + over)
    /\ backoffs' = backoffs + 1
    /\ attempt' = NextAttempt(attempt)
    /\ IF attempt' <= max_retries
       THEN pc' = "rate_limit" /\ result' = result
       ELSE pc' = "raised" /\ result' = Raise("NotionConnectionError", 0, 0)
    /\ outcome' = NoOutcome
    /\ delay' = 0
    /\ UNCHANGED <<stamp_count, stamp_gap, max_retries, http_attempts, rl_waits, seen>>
    /\ UNCHANGED notReq

\* the call is over: the caller has the body or the exception, and the
\* locals of the call are gone
Finish ==
    /\ pc \in {"returned", "raised"}
    /\ pc' = "idle"
    /\ attempt' = 0
    /\ outcome' = NoOutcome
    /\ delay' = 0
    /\ result' = NoResult
    /\ http_attempts' = 0
    /\ rl_waits' = 0
    /\ backoffs' = 0
    /\ seen' = {}
    /\ UNCHANGED <<elapsed, stamp_count, stamp_gap, max_retries>>
    /\ UNCHANGED notReq

\* RateLimiter.__init__ (_last_request_time = 0.0, the clock anywhere after
\* it) and NotionClient.__init__
ReqInit ==
    /\ elapsed \in 0 .. Far
    /\ stamp_count = 0
    /\ stamp_gap = 0
    /\ max_retries \in 1 .. MaxRetriesBound
    /\ pc = "idle"
    /\ attempt = 0
    /\ outcome = NoOutcome
    /\ delay = 0
    /\ result = NoResult
    /\ http_attempts = 0
    /\ rl_waits = 0
    /\ backoffs = 0
    /\ seen = {}

ReqNext == StartRequest \/ WaitIfNeeded \/ Attempt \/ Backoff \/ Finish

-----------------------------------------------------------------------------
(* RetryHandler.calculate_delay applied to handlers, hints and attempts of *)
(* any value, as a caller outside _request can (client.py 91-116)          *)

CalcDelay ==
    /\ cd_attempt <= MaxDelayAttempt
    /\ cd_delay' = calculate_delay(cd_handler, cd_attempt, cd_hint)
    /\ cd_prev' = cd_delay
    /\ cd_arg' = cd_attempt
    /\ cd_attempt' = cd_attempt + 1
    /\ UNCHANGED <<cd_handler, cd_hint>>
    /\ UNCHANGED notDelay

DelayInit ==
    /\ cd_handler \in [max_retries : {5}, base_delay : 1 .. MaxBaseDelay,
                        max_delay : 1 .. MaxMaxDelay]
    /\ cd_hint \in {NoneF} \cup {SomeF(x) : x \in 0 .. MaxHint}
    /\ cd_attempt = 0
    /\ cd_arg = 0
    /\ cd_delay = -1
    /\ cd_prev = -1

-----------------------------------------------------------------------------
(* NotionClient._paginate, client.py 288-346 *)

\* next_cursor / start_cursor: None, the empty string, or the cursor that
\* names page i of the listing (the number i)
NullCursor == 0
EmptyCursor == -1

\* `if start_cursor:` / `if not start_cursor:`
Truthy(c) == c # NullCursor /\ c # EmptyCursor

\* NotionConfig.page_size, default 100
page_size == 100

NoPage == [results |-> <<>>, has_more |-> FALSE, next_cursor |-> NullCursor]

\* the items of page i holding n items
PageItems(i, n) == [j \in 1 .. n |-> [page |-> i, pos |-> j]]

\* a page after which the listing goes on, and one that ends it: has_more
\* false (with no cursor or a stale one), or has_more true without a cursor
InnerPage(i, n) ==
    [results |-> PageItems(i, n), has_more |-> TRUE, next_cursor |-> i + 1]
LastPages(i, n) ==
    {[results |-> PageItems(i, n), has_more |-> FALSE, next_cursor |-> c] :
        c \in {NullCursor, i + 1}}
    \cup {[results |-> PageItems(i, n), has_more |-> TRUE, next_cursor |-> c] :
        c \in {NullCursor, EmptyCursor}}

\* the listings of k pages: k - 1 inner pages and a last one
RECURSIVE Listings(_)
Listings(k) ==
    IF k = 1 THEN {<<p>> : p \in UNION {LastPages(1, n) : n \in 0 .. MaxPageItems}}
    ELSE LET inner == {InnerPage(k - 1, n) : n \in 0 .. MaxPageItems}
             last == UNION {LastPages(k, n) : n \in 0 .. MaxPageItems}
         IN  {[i \in 1 .. k |-> IF i < k - 1 THEN l[i]
                                ELSE IF i = k - 1 THEN q ELSE p] :
                 l \in Listings(k - 1), q \in inner, p \in last}

\* parameters that never carry the cursor
PaginationParams_no_cursor(cursor) ==
    [page_size |-> page_size, start_cursor |-> NullCursor]

\* the pagination parameters of lines 317-321
PaginationParams(cursor) ==
    [page_size |-> page_size,
     start_cursor |-> IF Truthy(cursor) THEN cursor ELSE NullCursor]

\* the page the service answers a request with: the first one without a
\* start_cursor, the one the cursor names otherwise
Served(params) == IF params.start_cursor = NullCursor THEN 1 ELSE params.start_cursor

\* a loop that follows every cursor, whatever has_more says
AfterPage_cursor_only(data, cursor) ==
    IF ~Truthy(data.next_cursor)
    THEN [pc |-> "done", start_cursor |-> data.next_cursor]
    ELSE [pc |-> "request", start_cursor |-> data.next_cursor]

\* lines 339-346: after the last item of a page, stop or go on
AfterPage(data, cursor) ==
    IF ~data.has_more THEN [pc |-> "done", start_cursor |-> cursor]
    ELSE IF ~Truthy(data.next_cursor)
         THEN [pc |-> "done", start_cursor |-> data.next_cursor]
         ELSE [pc |-> "request", start_cursor |-> data.next_cursor]

\* lines 313-334: build the parameters and fetch one page through _request,
\* which returns the page or raises (retries exhausted, an error status, a
\* cursor the service does not know)
PagRequest ==
    /\ pg_pc = "request"
    /\ LET params == PaginationParams(pg_start_cursor) IN
       /\ pg_requests' = Append(pg_requests, params)
       /\ \/ /\ Served(params) \in 1 .. Len(pg_pages)
             /\ pg_data' = pg_pages[Served(params)]
             /\ pg_idx' = 1
             /\ pg_pc' = "yield"
          \/ /\ pg_data' = NoPage
             /\ pg_idx' = 1
             /\ pg_pc' = "raised"
    /\ UNCHANGED <<pg_pages, pg_start_cursor, pg_yielded>>
    /\ UNCHANGED notPag

\* lines 336-337: yield the next item of the page
PagYield ==
    /\ pg_pc = "yield"
    /\ pg_idx <= Len(pg_data.results)
    /\ pg_yielded' = Append(pg_yielded, pg_data.results[pg_idx])
    /\ pg_idx' = pg_idx + 1
    /\ UNCHANGED <<pg_pages, pg_pc, pg_start_cursor, pg_data, pg_requests>>
    /\ UNCHANGED notPag

\* lines 339-346: the page is used up
PagAfterPage ==
    /\ pg_pc = "yield"
    /\ pg_idx > Len(pg_data.results)
    /\ LET a == AfterPage(pg_data, pg_start_cursor) IN
       /\ pg_pc' = a.pc
       /\ pg_start_cursor' = a.start_cursor
    /\ UNCHANGED <<pg_pages, pg_data, pg_idx, pg_yielded, pg_requests>>
    /\ UNCHANGED notPag

\* the consumer drops the generator while it is suspended at a yield
PagClose ==
    /\ pg_pc = "yield"
    /\ pg_idx > 1
    /\ pg_pc' = "closed"
    /\ UNCHANGED <<pg_pages, pg_start_cursor, pg_data, pg_idx, pg_yielded, pg_requests>>
    /\ UNCHANGED notPag

PagInit ==
    /\ pg_pages \in UNION {Listings(k) : k \in 1 .. MaxPages}
    /\ pg_pc = "request"
    /\ pg_start_cursor = NullCursor
    /\ pg_data = NoPage
    /\ pg_idx = 1
    /\ pg_yielded = <<>>
    /\ pg_requests = <<>>

PagNext == PagRequest \/ PagYield \/ PagAfterPage \/ PagClose

PagIdle ==
    /\ pg_pages = <<>> /\ pg_pc = "off" /\ pg_start_cursor = NullCursor
    /\ pg_data = NoPage /\ pg_idx = 1 /\ pg_yielded = <<>> /\ pg_requests = <<>>

-----------------------------------------------------------------------------
(* Datetimes and their strings, utils.py 181-225 *)

\* record.get(field) / state.get(key) when there is no value: None
NoValue == "<none>"

\* a datetime: seconds relative to 2024-01-15 10:30:00, and whether it
\* carries a timezone (aware) or not (naive); NoDT is None
DT(sec, aware) == [some |-> TRUE, sec |-> sec, aware |-> aware]
NoDT == [some |-> FALSE, sec |-> 0, aware |-> FALSE]

\* the strings of the model and what the two parsers make of them:
\*   ...Z is rewritten to ...+00:00 and read by datetime.fromisoformat,
\*   which also reads offsets, naive date-times and bare dates (midnight,
\*   naive); anything else fails both parsers and gives None
parse_iso_datetime(text) ==
    CASE text = NoValue -> NoDT
      [] text = "" -> NoDT
      [] text = "2024-01-15T10:29:59.000Z" -> DT(-1, TRUE)
      [] text = "2024-01-15T10:30:00.000Z" -> DT(0, TRUE)
      [] text = "2024-01-15T10:30:01.000Z" -> DT(1, TRUE)
      [] text = "2024-01-15T00:00:00+00:00" -> DT(-37800, TRUE)
      [] text = "2024-01-15T10:29:59+00:00" -> DT(-1, TRUE)
      [] text = "2024-01-15T10:30:00+00:00" -> DT(0, TRUE)
      [] text = "2024-01-15T10:30:01+00:00" -> DT(1, TRUE)
      [] text = "2024-01-15T10:30:00" -> DT(0, FALSE)
      [] text = "2024-01-15T10:30:01" -> DT(1, FALSE)
      [] text = "2024-01-15" -> DT(-37800, FALSE)
      [] OTHER -> NoDT

\* dt.isoformat() of the datetime made aware (UTC when naive)
format_datetime_for_api(dt) ==
    CASE ~dt.some -> NoValue
      [] dt.some /\ dt.sec = -37800 -> "2024-01-15T00:00:00+00:00"
      [] dt.some /\ dt.sec = -1 -> "2024-01-15T10:29:59+00:00"
      [] dt.some /\ dt.sec = 0 -> "2024-01-15T10:30:00+00:00"
      [] dt.some /\ dt.sec = 1 -> "2024-01-15T10:30:01+00:00"
      [] OTHER -> NoValue

\* a > b on datetimes: Python raises TypeError when one is naive and the
\* other aware
CanCompare(a, b) == a.aware = b.aware
After(a, b) == a.sec > b.sec

-----------------------------------------------------------------------------
(* StreamState and the stream classes, streams.py 28-206 *)

\* StreamState.get_last_sync_time of a state holding `ts`
get_last_sync_time(ts) ==
    IF ts # NoValue /\ ts # "" THEN parse_iso_datetime(ts) ELSE NoDT

\* class attributes of the five streams; cursor_field None is NoValue
StreamClass(n) ==
    CASE n = "users" ->
            [name |-> n, cursor_field |-> NoValue, supports_incremental |-> FALSE]
      [] n = "comments" ->
            [name |-> n, cursor_field |-> "created_time", supports_incremental |-> TRUE]
      [] OTHER ->
            [name |-> n, cursor_field |-> "last_edited_time",
             supports_incremental |-> TRUE]

StreamNames == {"users", "databases", "pages", "blocks", "comments"}
SyncModes == {"full_refresh", "incremental"}

\* a record: its id and its two time fields (NoValue when missing or null)
Record(i, edited, created) ==
    [id |-> i, last_edited_time |-> edited, created_time |-> created]

\* record.get(cursor_field)
CursorValue(stream, record) ==
    CASE stream.cursor_field = "last_edited_time" -> record.last_edited_time
      [] stream.cursor_field = "created_time" -> record.created_time
      [] OTHER -> NoValue

\* `record_time > last_sync`, line 197
Newer(record_time, last_sync) == After(record_time, last_sync)

\* BaseStream._should_include_record, lines 161-197: "include" for True,
\* "exclude" for False, "TypeError" when the comparison raises
should_include_record(stream, record, sync_mode, ts) ==
    IF sync_mode # "incremental" \/ ~stream.supports_incremental THEN "include"
    ELSE IF stream.cursor_field = NoValue THEN "include"
    ELSE LET cursor_value == CursorValue(stream, record)
             last_sync == get_last_sync_time(ts)
             record_time == parse_iso_datetime(cursor_value)
         IN  IF cursor_value = NoValue \/ cursor_value = "" THEN "include"
             ELSE IF ~last_sync.some THEN "include"
             ELSE IF ~record_time.some THEN "include"
             ELSE IF ~CanCompare(record_time, last_sync) THEN "TypeError"
             ELSE IF Newer(record_time, last_sync) THEN "include"
             ELSE "exclude"

\* values of a record's time field, and of a stored last_sync_time
TimeStrings ==
    {NoValue, "", "not-a-date", "2024-01-15",
     "2024-01-15T10:29:59.000Z", "2024-01-15T10:30:00.000Z",
     "2024-01-15T10:30:01.000Z", "2024-01-15T10:30:01"}
StoredStrings ==
    {NoValue, "", "not-a-date", "2024-01-15T10:30:00+00:00", "2024-01-15T10:30:00"}

\* one call of the predicate
Include ==
    /\ in_result = "none"
    /\ in_result' = should_include_record(in_stream, in_record, in_mode, in_state)
    /\ UNCHANGED <<in_stream, in_mode, in_record, in_state>>
    /\ UNCHANGED notIncl

InclInit ==
    /\ in_stream \in {StreamClass(n) : n \in StreamNames}
    /\ in_mode \in SyncModes
    /\ in_record \in {Record(1, e, c) : e \in TimeStrings,
                        c \in {NoValue, "2024-01-15T10:30:01.000Z"}}
    /\ in_state \in StoredStrings
    /\ in_result = "none"

InclIdle ==
    /\ in_stream = StreamClass("users") /\ in_mode = "full_refresh"
    /\ in_record = Record(1, NoValue, NoValue) /\ in_state = NoValue
    /\ in_result = "off"

-----------------------------------------------------------------------------
(* DatabasesStream.read_records and PagesStream.read_records,               *)
(* streams.py 308-345 and 409-455                                          *)

\* a pages loop that skips an excluded record and goes on
PagesOnExcluded_continue(sync_mode) == "continue"

\* lines 433-437: what the pages loop does with an excluded record
PagesOnExcluded(sync_mode) == IF sync_mode = "incremental" THEN "break" ELSE "continue"

\* a databases loop that stops at an excluded record as the pages loop does
DatabasesOnExcluded_break(sync_mode) ==
    IF sync_mode = "incremental" THEN "break" ELSE "continue"

\* lines 326-327: what the databases loop does with an excluded record
DatabasesOnExcluded(sync_mode) == "continue"

OnExcluded(stream, sync_mode) ==
    IF stream.name = "pages" THEN PagesOnExcluded(sync_mode)
    ELSE DatabasesOnExcluded(sync_mode)

\* a transform whose records carry the configured start_date
TransformRecord_start_date(record) ==
    IF st_start_date = NoValue THEN record
    ELSE [record EXCEPT !.created_time = st_start_date]

\* _transform_record as far as the model's fields go: both keep id and times
TransformRecord(record) == record

\* a state update that does not look at the mode
StateAfterPass_any_mode(latest, sync_mode, ts) ==
    IF latest.some THEN format_datetime_for_api(latest) ELSE ts

\* lines 341-343 / 451-453: the state after the loop
StateAfterPass(latest, sync_mode, ts) ==
    IF latest.some /\ sync_mode = "incremental"
    THEN format_datetime_for_api(latest) ELSE ts

\* the loop takes the next record from the client's iterator and deals with it
StreamRecord ==
    /\ st_pc = "iter"
    /\ st_pos < Len(st_remote)
    /\ LET raw == st_remote[st_pos + 1]
           verdict == should_include_record(st_stream, raw, st_mode, st_state)
           record == TransformRecord(raw)
           record_time == parse_iso_datetime(CursorValue(st_stream, record))
       IN
       CASE verdict = "TypeError" ->
               /\ st_pc' = "raised" /\ st_error' = "TypeError"
               /\ UNCHANGED <<st_state, st_pos, st_latest, st_records_read, st_emitted>>
         [] verdict = "exclude" /\ OnExcluded(st_stream, st_mode) = "break" ->
               /\ st_pc' = "done"
               /\ st_state' = StateAfterPass(st_latest, st_mode, st_state)
               /\ UNCHANGED <<st_pos, st_latest, st_records_read, st_emitted, st_error>>
         [] verdict = "exclude" /\ OnExcluded(st_stream, st_mode) = "continue" ->
               /\ st_pos' = st_pos + 1
               /\ UNCHANGED <<st_state, st_pc, st_latest, st_records_read, st_emitted,
                              st_error>>
         [] OTHER ->
               \* included: count it, track latest_time, yield it
               IF record_time.some /\ st_latest.some
                  /\ ~CanCompare(record_time, st_latest)
               THEN /\ st_pc' = "raised" /\ st_error' = "TypeError"
                    /\ st_records_read' = st_records_read + 1
                    /\ UNCHANGED <<st_state, st_pos, st_latest, st_emitted>>
               ELSE /\ st_records_read' = st_records_read + 1
                    /\ st_latest' =
                          IF record_time.some
                             /\ (~st_latest.some \/ After(record_time, st_latest))
                          THEN record_time ELSE st_latest
                    /\ st_emitted' = Append(st_emitted, record)
                    /\ st_pos' = st_pos + 1
                    /\ UNCHANGED <<st_state, st_pc, st_error>>
    /\ UNCHANGED <<st_stream, st_mode, st_remote, st_state0, st_start_date>>
    /\ UNCHANGED notStream

\* the client's iterator raises: a request of the listing failed
StreamFetchError ==
    /\ st_pc = "iter"
    /\ st_pc' = "raised"
    /\ st_error' = "NotionAPIError"
    /\ UNCHANGED <<st_stream, st_mode, st_remote, st_state, st_state0, st_start_date,
                   st_pos,
                   st_latest, st_records_read, st_emitted>>
    /\ UNCHANGED notStream

\* the client's iterator is exhausted: the state update after the loop
StreamEnd ==
    /\ st_pc = "iter"
    /\ st_pos = Len(st_remote)
    /\ st_pc' = "done"
    /\ st_state' = StateAfterPass(st_latest, st_mode, st_state)
    /\ UNCHANGED <<st_stream, st_mode, st_remote, st_state0, st_start_date, st_pos,
                   st_latest,
                   st_records_read, st_emitted, st_error>>
    /\ UNCHANGED notStream

\* values of last_edited_time in a listing
ListedStrings ==
    {NoValue, "not-a-date", "2024-01-15T10:29:59.000Z", "2024-01-15T10:30:00.000Z",
     "2024-01-15T10:30:01.000Z", "2024-01-15T10:30:01"}

\* the listings of n records: record i has id i
RemoteListings(n) ==
    {[i \in 1 .. n |-> Record(i, f[i], "2024-01-15T10:29:59.000Z")] :
        f \in [1 .. n -> ListedStrings]}

StreamInit ==
    /\ st_stream \in {StreamClass("databases"), StreamClass("pages")}
    /\ st_mode \in SyncModes
    /\ st_remote \in UNION {RemoteListings(n) : n \in 0 .. MaxRecords}
    /\ st_state \in StoredStrings
    /\ st_state0 = st_state
    /\ st_start_date \in {NoValue, "2024-01-15T10:30:00+00:00"}
    /\ st_pc = "iter"
    /\ st_pos = 0
    /\ st_latest = NoDT
    /\ st_records_read = 0
    /\ st_emitted = <<>>
    /\ st_error = "none"

StreamNext == StreamRecord \/ StreamFetchError \/ StreamEnd

\* a command line that reads incrementally
CommandLineMode_incremental == "incremental"

\* run_connector, connector.py 617-619: `connector.read(catalog, state)`, so
\* sync_mode is the default of read(), line 384
CommandLineMode == "full_refresh"

StreamIdle ==
    /\ st_stream = StreamClass("users") /\ st_mode = "full_refresh"
    /\ st_remote = <<>> /\ st_state = NoValue /\ st_state0 = NoValue
    /\ st_start_date = NoValue
    /\ st_pc = "off" /\ st_pos = 0 /\ st_latest = NoDT /\ st_records_read = 0
    /\ st_emitted = <<>> /\ st_error = "none"

-----------------------------------------------------------------------------
(* BlocksStream.read_records and CommentsStream.read_records,               *)
(* streams.py 535-585 and 661-705                                           *)

\* an except clause that lets the exception out
OnChildError_raise(stream) == "raise"

\* lines 581-583 / 700-703: `except Exception` around the loop over one
\* page's blocks or comments logs and goes on with the next page
OnChildError(stream) == "continue"

\* the level the except clause logs at: warning for blocks, debug for comments
ChildErrorLevel(stream) == IF stream.name = "blocks" THEN "WARNING" ELSE "DEBUG"

\* _transform_record(record, page_id), as far as the model's fields go
TransformChild(record, page_id) == [page_id |-> page_id, record |-> record]

\* what the generator does first: blocks returns at once when block fetching
\* is switched off, lines 551-553
NestedStart ==
    /\ nb_pc = "start"
    /\ nb_pc' = IF nb_stream.name = "blocks" /\ ~nb_fetch_blocks
                THEN "done" ELSE "pages"
    /\ UNCHANGED <<nb_stream, nb_mode, nb_state, nb_fetch_blocks, nb_page_id,
                   nb_children, nb_records_read, nb_pages, nb_delivered,
                   nb_emitted, nb_logged, nb_error>>
    /\ UNCHANGED notNested

\* `for page in pages_iterator`: the iterator yields a page, with or without
\* an id, or is exhausted, or raises
NestedNextPage ==
    /\ nb_pc = "pages"
    /\ \/ \E has_id \in BOOLEAN :
            /\ Len(nb_pages) < MaxNestedPages
            /\ LET page_id == IF has_id THEN Len(nb_pages) + 1 ELSE 0 IN
               /\ nb_pages' = Append(nb_pages,
                     [id |-> page_id,
                      fetch |-> IF has_id THEN "reading" ELSE "no id"])
               /\ nb_page_id' = page_id
               /\ nb_pc' = IF has_id THEN "children" ELSE "pages"
            /\ nb_children' = 0
            /\ UNCHANGED nb_error
       \/ /\ nb_pc' = "done"
          /\ UNCHANGED <<nb_pages, nb_page_id, nb_children, nb_error>>
       \/ /\ nb_pc' = "raised"
          /\ nb_error' = "pages"
          /\ UNCHANGED <<nb_pages, nb_page_id, nb_children>>
    /\ UNCHANGED <<nb_stream, nb_mode, nb_state, nb_fetch_blocks, nb_records_read,
                   nb_delivered, nb_emitted, nb_logged>>
    /\ UNCHANGED notNested

\* the page's fetch ended with an exception e inside the try
ChildFailed(kind) ==
    /\ nb_pages' = [nb_pages EXCEPT ![Len(nb_pages)].fetch = kind]
    /\ IF OnChildError(nb_stream) = "continue"
       THEN /\ nb_pc' = "pages"
            /\ nb_logged' = Append(nb_logged,
                  [level |-> ChildErrorLevel(nb_stream), page_id |-> nb_page_id])
            /\ UNCHANGED nb_error
       ELSE /\ nb_pc' = "raised"
            /\ nb_error' = "children"
            /\ UNCHANGED nb_logged

\* the values of a child record's cursor field
ChildStrings ==
    {"2024-01-15T10:29:59.000Z", "2024-01-15T10:30:01.000Z", "2024-01-15T10:30:01"}

\* `for block in self.client.get_all_blocks(...)` / `for comment in
\* self.client.list_comments(...)`: the iterator delivers a record, or is
\* exhausted, or raises
NestedNextChild ==
    /\ nb_pc = "children"
    /\ \/ \E t \in ChildStrings :
            /\ nb_children < MaxChildren
            /\ LET raw == Record(nb_children + 1, t, t)
                   verdict == should_include_record(nb_stream, raw, nb_mode, nb_state)
               IN
               /\ nb_delivered' = Append(nb_delivered, TransformChild(raw, nb_page_id))
               /\ nb_children' = nb_children + 1
               /\ CASE verdict = "include" ->
                        /\ nb_records_read' = nb_records_read + 1
                        /\ nb_emitted' = Append(nb_emitted, TransformChild(raw, nb_page_id))
                        /\ UNCHANGED <<nb_pc, nb_pages, nb_logged, nb_error>>
                    [] verdict = "exclude" ->
                        UNCHANGED <<nb_pc, nb_pages, nb_logged, nb_error,
                                    nb_records_read, nb_emitted>>
                    [] OTHER ->
                        /\ ChildFailed("predicate raised")
                        /\ UNCHANGED <<nb_records_read, nb_emitted>>
       \/ /\ nb_pc' = "pages"
          /\ nb_pages' = [nb_pages EXCEPT ![Len(nb_pages)].fetch = "read"]
          /\ UNCHANGED <<nb_children, nb_delivered, nb_records_read, nb_emitted,
                         nb_logged, nb_error>>
       \/ /\ ChildFailed("fetch raised")
          /\ UNCHANGED <<nb_children, nb_delivered, nb_records_read, nb_emitted>>
    /\ UNCHANGED <<nb_stream, nb_mode, nb_state, nb_fetch_blocks, nb_page_id>>
    /\ UNCHANGED notNested

NestedInit ==
    /\ nb_stream \in {StreamClass("blocks"), StreamClass("comments")}
    /\ nb_mode \in SyncModes
    /\ nb_state \in {NoValue, "2024-01-15T10:30:00+00:00"}
    /\ nb_fetch_blocks \in BOOLEAN
    /\ nb_pc = "start"
    /\ nb_page_id = 0
    /\ nb_children = 0
    /\ nb_records_read = 0
    /\ nb_pages = <<>>
    /\ nb_delivered = <<>>
    /\ nb_emitted = <<>>
    /\ nb_logged = <<>>
    /\ nb_error = "none"

NestedNext == NestedStart \/ NestedNextPage \/ NestedNextChild

NestedIdle ==
    /\ nb_stream = StreamClass("users") /\ nb_mode = "full_refresh"
    /\ nb_state = NoValue /\ nb_fetch_blocks = FALSE /\ nb_pc = "off"
    /\ nb_page_id = 0 /\ nb_children = 0 /\ nb_records_read = 0
    /\ nb_pages = <<>> /\ nb_delivered = <<>> /\ nb_emitted = <<>>
    /\ nb_logged = <<>> /\ nb_error = "none"

-----------------------------------------------------------------------------
(* NotionClient.get_all_blocks, client.py 594-629 *)

\* the page whose blocks are read
RootBlock == 0

\* the blocks under parent p in the order the API lists them
ChildrenOf(parent, p) ==
    LET kids == {b \in DOMAIN parent : parent[b] = p}
    IN  [k \in 1 .. Cardinality(kids) |->
            CHOOSE b \in kids : Cardinality({c \in kids : c < b}) = k - 1]

\* a recursion that also goes below a block at max_depth
Descend_through(has_children, current_depth, max_depth) ==
    has_children /\ current_depth <= max_depth

\* line 622: `if block.get("has_children") and current_depth < max_depth`
Descend(has_children, current_depth, max_depth) ==
    has_children /\ current_depth < max_depth

\* a recursion that does not count its depth
Frame_flat(parent_id, current_depth) ==
    [parent_id |-> parent_id, current_depth |-> 1,
     listed |-> FALSE, blocks |-> <<>>, idx |-> 0]

\* one _fetch_recursive(parent_id, current_depth) generator: its request for
\* the children is sent when it is first resumed
Frame(parent_id, current_depth) ==
    [parent_id |-> parent_id, current_depth |-> current_depth,
     listed |-> FALSE, blocks |-> <<>>, idx |-> 0]

Top == bt_stack[Len(bt_stack)]
SetTop(f) == [bt_stack EXCEPT ![Len(bt_stack)] = f]

\* the innermost generator asks for the children of its parent_id
\* (list_block_children), which may fail
TreeList ==
    /\ bt_pc = "run" /\ bt_stack # <<>> /\ ~Top.listed
    /\ bt_listed' = Append(bt_listed, Top.parent_id)
    /\ \/ /\ bt_stack' = SetTop([Top EXCEPT !.listed = TRUE,
                                   !.blocks = ChildrenOf(bt_parent, Top.parent_id)])
          /\ UNCHANGED bt_pc
       \/ /\ bt_pc' = "raised"
          /\ UNCHANGED bt_stack
    /\ UNCHANGED <<bt_parent, bt_flag, bt_max_depth, bt_yielded>>
    /\ UNCHANGED notTree

\* the innermost generator tags and yields its next block, and on being
\* resumed starts the recursion into it when line 622 says so
TreeYield ==
    /\ bt_pc = "run" /\ bt_stack # <<>> /\ Top.listed
    /\ Top.idx < Len(Top.blocks)
    /\ LET block == Top.blocks[Top.idx + 1]
           advanced == SetTop([Top EXCEPT !.idx = Top.idx + 1])
       IN
       /\ bt_yielded' = Append(bt_yielded,
             [id |-> block, depth |-> Top.current_depth, parent_id |-> Top.parent_id])
       /\ bt_stack' =
             IF Descend(bt_flag[block], Top.current_depth, bt_max_depth)
             THEN Append(advanced, Frame(block, Top.current_depth + 1))
             ELSE advanced
    /\ UNCHANGED <<bt_parent, bt_flag, bt_max_depth, bt_pc, bt_listed>>
    /\ UNCHANGED notTree

\* the innermost generator has no block left and returns
TreeReturn ==
    /\ bt_pc = "run" /\ bt_stack # <<>> /\ Top.listed
    /\ Top.idx = Len(Top.blocks)
    /\ bt_stack' = SubSeq(bt_stack, 1, Len(bt_stack) - 1)
    /\ bt_pc' = IF Len(bt_stack) = 1 THEN "done" ELSE "run"
    /\ UNCHANGED <<bt_parent, bt_flag, bt_max_depth, bt_yielded, bt_listed>>
    /\ UNCHANGED notTree

\* the trees of n blocks: block b hangs under the page or an earlier block
BlockTrees(n) == {p \in [1 .. n -> 0 .. n] : \A b \in 1 .. n : p[b] < b}

TreeInit ==
    /\ \E n \in 0 .. MaxBlocks :
          /\ bt_parent \in BlockTrees(n)
          /\ bt_flag \in [1 .. n -> BOOLEAN]
    /\ bt_max_depth \in 1 .. MaxDepthBound
    /\ bt_stack = <<Frame(RootBlock, 1)>>
    /\ bt_pc = "run"
    /\ bt_yielded = <<>>
    /\ bt_listed = <<>>

TreeNext == TreeList \/ TreeYield \/ TreeReturn

TreeIdle ==
    /\ bt_parent = <<>> /\ bt_flag = <<>> /\ bt_max_depth = 1
    /\ bt_stack = <<>> /\ bt_pc = "off" /\ bt_yielded = <<>> /\ bt_listed = <<>>

-----------------------------------------------------------------------------
(* NotionSourceConnector.read, connector.py 380-463: the loop over the      *)
(* streams and, inside it, over the records of one stream                   *)

\* a periodic snapshot taken one record late
SnapshotDue_late(record_count) == record_count % 100 = 1

\* line 440: `if record_count % 100 == 0`
SnapshotDue(record_count) == record_count % 100 = 0

\* an except clause that lets the exception out of read()
OnStreamError_raise(stream_name) == "raise"

\* lines 454-459: `except Exception` around one stream logs an error and the
\* loop goes on with the next stream
OnStreamError(stream_name) == "continue"

\* AirbyteMessage.log as the model keeps it: level, which message it is, the
\* count it reports, and how many RECORD messages of the stream precede it
LogMessage(level, what, count, at) ==
    [level |-> level, what |-> what, count |-> count, at |-> at]

\* the loop takes the next stream: instance, start LOG, record_count = 0
ReadStartStream ==
    /\ rd_pc = "next"
    /\ rd_idx < Len(rd_to_sync)
    /\ rd_idx' = rd_idx + 1
    /\ rd_pc' = "records"
    /\ rd_count' = 0
    /\ rd_records' = 0
    /\ rd_states' = <<>>
    /\ rd_logs' = <<LogMessage("INFO", "start", 0, 0)>>
    /\ UNCHANGED <<rd_to_sync, rd_outcomes>>
    /\ UNCHANGED notRead

\* `for record in stream.read_records(sync_mode)`: the stream yields a
\* record, or completes, or raises
ReadRecord ==
    /\ rd_pc = "records"
    /\ \/ /\ rd_count < MaxStreamRecords
          /\ rd_records' = rd_records + 1
          /\ rd_count' = rd_count + 1
          /\ rd_states' = IF SnapshotDue(rd_count + 1)
                          THEN Append(rd_states, rd_records + 1) ELSE rd_states
          /\ UNCHANGED <<rd_pc, rd_logs, rd_outcomes>>
       \/ /\ rd_states' = Append(rd_states, rd_records)
          /\ rd_logs' = Append(rd_logs,
                LogMessage("INFO", "completed", rd_count, rd_records))
          /\ rd_outcomes' = Append(rd_outcomes, "completed")
          /\ rd_pc' = "next"
          /\ UNCHANGED <<rd_records, rd_count>>
       \/ /\ rd_logs' = Append(rd_logs, LogMessage("ERROR", "error", 0, rd_records))
          /\ rd_outcomes' = Append(rd_outcomes, "raised")
          /\ rd_pc' = IF OnStreamError(rd_to_sync[rd_idx]) = "continue"
                      THEN "next" ELSE "raised"
          /\ UNCHANGED <<rd_records, rd_count, rd_states>>
    /\ UNCHANGED <<rd_to_sync, rd_idx>>
    /\ UNCHANGED notRead

\* no stream is left: read() returns
ReadFinish ==
    /\ rd_pc = "next"
    /\ rd_idx = Len(rd_to_sync)
    /\ rd_pc' = "done"
    /\ UNCHANGED <<rd_to_sync, rd_idx, rd_count, rd_records, rd_states, rd_logs,
                   rd_outcomes>>
    /\ UNCHANGED notRead

\* the lists of n different stream names
Selections(n) ==
    {q \in [1 .. n -> StreamNames] : \A i, j \in 1 .. n : i # j => q[i] # q[j]}

ReadInit ==
    /\ rd_to_sync \in UNION {Selections(n) : n \in 1 .. MaxSelected}
    /\ rd_pc = "next"
    /\ rd_idx = 0
    /\ rd_count = 0
    /\ rd_records = 0
    /\ rd_states = <<>>
    /\ rd_logs = <<>>
    /\ rd_outcomes = <<>>

ReadNext == ReadStartStream \/ ReadRecord \/ ReadFinish

ReadIdle ==
    /\ rd_to_sync = <<>> /\ rd_pc = "off" /\ rd_idx = 0 /\ rd_count = 0
    /\ rd_records = 0 /\ rd_states = <<>> /\ rd_logs = <<>> /\ rd_outcomes = <<>>

-----------------------------------------------------------------------------
(* NotionSourceConnector._get_enabled_streams, _get_streams_to_sync and     *)
(* _create_stream_instance, connector.py 465-555, and read() as the loop    *)
(* over streams_to_sync                                                     *)

\* the order in which _get_enabled_streams looks at the toggles
StreamOrder == <<"users", "databases", "pages", "blocks", "comments">>

\* _get_enabled_streams, lines 465-480
IsEnabled(name, sync) == sync[name]
get_enabled_streams(sync) ==
    LET Enabled(name) == IsEnabled(name, sync) IN SelectSeq(StreamOrder, Enabled)

InSeq(x, q) == \E i \in 1 .. Len(q) : q[i] = x

\* catalog = None
NoCatalog == [kind |-> "None", names |-> <<>>]

\* a catalog with a "streams" list: the names its entries give under
\* stream.name, NoValue when an entry gives none
Catalog(names) == [kind |-> "streams", names |-> names]

\* `not catalog` is true for None and for a dict with no key at all
EmptyDict == [kind |-> "{}", names |-> <<>>]
Falsy(catalog) == catalog.kind \in {"None", "{}"}

\* a selection that does not look at the toggles
Selectable_any(stream_name, enabled_streams) == stream_name # NoValue

\* line 501: `if stream_name and stream_name in enabled_streams`
Selectable(stream_name, enabled_streams) ==
    stream_name # NoValue /\ InSeq(stream_name, enabled_streams)

\* _get_streams_to_sync, lines 482-505
get_streams_to_sync(catalog, sync) ==
    LET enabled_streams == get_enabled_streams(sync)
        Keep(stream_name) == Selectable(stream_name, enabled_streams)
        selected_streams == SelectSeq(catalog.names, Keep)
    IN  IF Falsy(catalog) THEN enabled_streams
        ELSE IF selected_streams # <<>> THEN selected_streams
        ELSE enabled_streams

\* _create_stream_instance, lines 516-555: None for a name it does not know
KnownStream(stream_name) == InSeq(stream_name, StreamOrder)

\* read() up to its loop: the streams to sync and the shared pages stream
Select ==
    /\ sl_pc = "select"
    /\ sl_to_sync' = get_streams_to_sync(sl_catalog, sl_sync)
    /\ sl_pages_stream' =
          (InSeq("pages", get_streams_to_sync(sl_catalog, sl_sync)) /\ sl_sync["pages"])
    /\ sl_pc' = "next"
    /\ UNCHANGED <<sl_sync, sl_catalog, sl_idx, sl_ran>>
    /\ UNCHANGED notSelect

\* one turn of the loop: the stream is created and read to its end or to the
\* exception that the driver logs; a name without a stream class is passed
RunStream ==
    /\ sl_pc = "next"
    /\ sl_idx < Len(sl_to_sync)
    /\ sl_idx' = sl_idx + 1
    /\ sl_ran' = IF KnownStream(sl_to_sync[sl_idx + 1])
                 THEN Append(sl_ran, sl_to_sync[sl_idx + 1]) ELSE sl_ran
    /\ UNCHANGED <<sl_sync, sl_catalog, sl_to_sync, sl_pages_stream, sl_pc>>
    /\ UNCHANGED notSelect

\* no stream is left
SelectFinish ==
    /\ sl_pc = "next"
    /\ sl_idx = Len(sl_to_sync)
    /\ sl_pc' = "done"
    /\ UNCHANGED <<sl_sync, sl_catalog, sl_to_sync, sl_pages_stream, sl_idx, sl_ran>>
    /\ UNCHANGED notSelect

\* the names a catalog entry can give: the five streams, a name that is no
\* stream, or none
CatalogNames == StreamNames \cup {"tasks", NoValue}
Catalogs ==
    {NoCatalog, EmptyDict} \cup
    {Catalog(names) : names \in UNION {[1 .. n -> CatalogNames] : n \in 0 .. MaxCatalog}}

SelectInit ==
    /\ sl_sync \in [StreamNames -> BOOLEAN]
    /\ sl_catalog \in Catalogs
    /\ sl_to_sync = <<>>
    /\ sl_pages_stream = FALSE
    /\ sl_pc = "select"
    /\ sl_idx = 0
    /\ sl_ran = <<>>

SelectNext == Select \/ RunStream \/ SelectFinish

SelectIdle ==
    /\ sl_sync = [n \in StreamNames |-> FALSE] /\ sl_catalog = NoCatalog
    /\ sl_to_sync = <<>> /\ sl_pages_stream = FALSE /\ sl_pc = "off"
    /\ sl_idx = 0 /\ sl_ran = <<>>

-----------------------------------------------------------------------------
(* NotionAuthenticator, auth.py 43-258, and the credentials it reads and    *)
(* writes, config.py 26-80 and 212-237                                      *)

\* no token (None or the empty string), no session
NoToken == "<no token>"
NoSession == [id |-> 0, authorization |-> NoToken]

TokenCredentials(token) ==
    [kind |-> "token", access_token |-> token, refresh_token |-> NoToken]
OAuth2Credentials(access_token, refresh_token) ==
    [kind |-> "oauth2", access_token |-> access_token, refresh_token |-> refresh_token]

\* NotionConfig.get_token and the Authorization header of get_auth_headers
get_token(credentials) == credentials.access_token

\* what a request can meet: an exception of the requests library, or a
\* response with a status and a body
Failure(exception) == [kind |-> "exception", exception |-> exception]
TransportFailures ==
    {Failure("Timeout"), Failure("ConnectionError"), Failure("RequestException")}

\* the bodies of a /users/me response: a user object, another JSON object
\* with or without a "message", text that is not JSON, nothing
MeBodies == {"user", "object", "object with message", "text", "empty"}
MeStatuses == {200, 204, 302, 400, 401, 403, 404, 429, 500, 503}
MeResponse(status, body) == [kind |-> "response", status |-> status, body |-> body]
MeOutcomes ==
    TransportFailures \cup {MeResponse(st, b) : st \in MeStatuses, b \in MeBodies}

\* response.json(): requests.exceptions.JSONDecodeError, a RequestException,
\* for a body that is not JSON
IsJson(body) == body \notin {"text", "empty"}

\* AuthenticationResult, and a call that ended with an exception
AuthenticationResult(success, error) ==
    [kind |-> "result", success |-> success, error |-> error]
Raised(exception) == [kind |-> "raised", success |-> FALSE, error |-> exception]

\* except clauses that catch the two network failures only
Handled_network_only(exception) ==
    CASE exception = "Timeout" ->
            AuthenticationResult(FALSE, "Connection timeout while validating token")
      [] exception = "ConnectionError" ->
            AuthenticationResult(FALSE, "Failed to connect to Notion API")
      [] OTHER -> Raised(exception)

\* the except clauses of validate, lines 146-160; HTTPError and
\* JSONDecodeError are RequestExceptions
Handled(exception) ==
    CASE exception = "Timeout" ->
            AuthenticationResult(FALSE, "Connection timeout while validating token")
      [] exception = "ConnectionError" ->
            AuthenticationResult(FALSE, "Failed to connect to Notion API")
      [] exception \in {"RequestException", "HTTPError", "JSONDecodeError"} ->
            AuthenticationResult(FALSE, "Request failed")
      [] OTHER -> Raised(exception)

\* validate, lines 102-144, on what its request met
validate(met) ==
    IF met.kind = "exception" THEN Handled(met.exception)
    ELSE IF met.status = 401 THEN
        IF met.body = "empty"
        THEN AuthenticationResult(FALSE, "Invalid or expired token")
        ELSE IF ~IsJson(met.body) THEN Handled("JSONDecodeError")
        ELSE IF met.body = "object with message"
        THEN AuthenticationResult(FALSE, "<message of the body>")
        ELSE AuthenticationResult(FALSE, "Invalid or expired token")
    ELSE IF met.status = 403
    THEN AuthenticationResult(FALSE, "Access forbidden - check integration permissions")
    ELSE IF met.status >= 400 THEN Handled("HTTPError")
    ELSE IF ~IsJson(met.body) THEN Handled("JSONDecodeError")
    ELSE IF met.body # "user"
    THEN AuthenticationResult(FALSE, "Unexpected response from /users/me endpoint")
    ELSE AuthenticationResult(TRUE, NoValue)

\* the session property, lines 65-71: the session is made on first use with
\* the Authorization header of that moment
SessionInUse ==
    IF au_session = NoSession
    THEN [id |-> au_made + 1, authorization |-> get_token(au_credentials)]
    ELSE au_session

Snapshot ==
    [credentials |-> au_credentials, session |-> au_session,
     authenticated |-> au_authenticated]

\* one call of validate()
Validate ==
    /\ au_ops < MaxAuthOps
    /\ au_ops' = au_ops + 1
    /\ au_before' = Snapshot
    /\ au_session' = SessionInUse
    /\ au_made' = IF au_session = NoSession THEN au_made + 1 ELSE au_made
    /\ au_request' = [session |-> SessionInUse.id,
                      authorization |-> SessionInUse.authorization,
                      after |-> au_refreshed]
    /\ au_refreshed' = [token |-> NoToken, made |-> 0]
    /\ \E met \in MeOutcomes :
          /\ au_last' = [op |-> "validate", met |-> met,
                         ended |-> validate(met), value |-> NoToken]
          /\ IF validate(met).success
             THEN au_authenticated' = TRUE /\ au_bot_info' = "user"
             ELSE UNCHANGED <<au_authenticated, au_bot_info>>
          /\ au_valid' = validate(met).success
    /\ UNCHANGED <<au_credentials, au_client, au_client_request>>
    /\ UNCHANGED notAuth

\* get_workspace_info, lines 185-205: None unless authenticated with a cached
\* identity; the user object of the model is that of a bot
get_workspace_info(authenticated, bot_info) ==
    IF ~authenticated \/ bot_info = NoValue THEN NoValue ELSE "name and owner"

\* the bodies of a token endpoint response: a JSON object with or without an
\* access_token and a refresh_token, text that is not JSON, nothing
TokenBody(access_token, refresh_token) ==
    [json |-> TRUE, access_token |-> access_token, refresh_token |-> refresh_token]
NotJson == [json |-> FALSE, access_token |-> NoToken, refresh_token |-> NoToken]
TokenBodies ==
    {NotJson} \cup {TokenBody(a, r) : a \in {NoToken, "access 1", "access 2"},
                                      r \in {NoToken, "refresh 1"}}
TokenResponse(status, body) == [kind |-> "response", status |-> status, body |-> body]
TokenOutcomes ==
    TransportFailures \cup
    {TokenResponse(st, b) : st \in {200, 400, 401, 500}, b \in TokenBodies}

\* a refresh that is tried without a refresh token
Applicable_any_oauth2(credentials) == credentials.kind = "oauth2"

\* lines 220-225: only OAuth2 credentials with a refresh token
Applicable(credentials) ==
    credentials.kind = "oauth2" /\ credentials.refresh_token # NoToken

\* lines 239-243, 255-258: the access_token of the response, NoToken when the
\* request raised, the status was an error or the body has none
NewToken(met) ==
    IF met.kind = "exception" THEN NoToken
    ELSE IF met.status >= 400 THEN NoToken
    ELSE IF ~met.body.json THEN NoToken
    ELSE met.body.access_token

\* a refresh that keeps the session
SessionAfterRefresh_kept(session) == session

\* line 250: `self._session = None`
SessionAfterRefresh(session) == NoSession

\* one call of refresh_oauth_token()
Refresh ==
    /\ au_ops < MaxAuthOps
    /\ au_ops' = au_ops + 1
    /\ au_before' = Snapshot
    /\ IF ~Applicable(au_credentials)
       THEN /\ au_last' = [op |-> "refresh", met |-> Failure("not sent"),
                           ended |-> "returned", value |-> NoToken]
            /\ UNCHANGED <<au_credentials, au_session, au_authenticated, au_refreshed,
                           au_valid>>
       ELSE \E met \in TokenOutcomes :
            /\ au_last' = [op |-> "refresh", met |-> met,
                           ended |-> "returned", value |-> NewToken(met)]
            /\ IF NewToken(met) # NoToken
               THEN /\ au_credentials' =
                          [au_credentials EXCEPT
                              !.access_token = NewToken(met),
                              !.refresh_token =
                                  IF met.body.refresh_token # NoToken
                                  THEN met.body.refresh_token
                                  ELSE au_credentials.refresh_token]
                    /\ au_session' = SessionAfterRefresh(au_session)
                    /\ au_authenticated' = FALSE
                    /\ au_refreshed' = [token |-> NewToken(met), made |-> au_made]
                    /\ au_valid' = FALSE
               ELSE UNCHANGED <<au_credentials, au_session, au_authenticated,
                                au_refreshed, au_valid>>
    /\ UNCHANGED <<au_made, au_bot_info, au_request, au_client, au_client_request>>
    /\ UNCHANGED notAuth

\* NotionClient(config), client.py 166-168: the client makes its session and
\* gives it the Authorization header of that moment
ClientConstruct ==
    /\ au_ops < MaxAuthOps
    /\ au_client = NoToken
    /\ au_ops' = au_ops + 1
    /\ au_client' = get_token(au_credentials)
    /\ UNCHANGED <<au_credentials, au_session, au_made, au_authenticated, au_bot_info,
                   au_last, au_before, au_request, au_refreshed, au_valid,
                   au_client_request>>
    /\ UNCHANGED notAuth

\* NotionClient._request, client.py 217-224: the request goes out on the
\* client's session, with the headers the session was given
ClientRequest ==
    /\ au_ops < MaxAuthOps
    /\ au_client # NoToken
    /\ au_ops' = au_ops + 1
    /\ au_client_request' = [authorization |-> au_client,
                             token |-> get_token(au_credentials)]
    /\ UNCHANGED <<au_credentials, au_session, au_made, au_authenticated, au_bot_info,
                   au_last, au_before, au_request, au_refreshed, au_valid, au_client>>
    /\ UNCHANGED notAuth

AuthInit ==
    /\ au_credentials \in
          {TokenCredentials("access 0"), OAuth2Credentials("access 0", NoToken),
           OAuth2Credentials("access 0", "refresh 0")}
    /\ au_session = NoSession
    /\ au_made = 0
    /\ au_authenticated = FALSE
    /\ au_bot_info = NoValue
    /\ au_ops = 0
    /\ au_last = [op |-> "none", met |-> Failure("not sent"),
                  ended |-> "returned", value |-> NoToken]
    /\ au_before = Snapshot
    /\ au_request = [session |-> 0, authorization |-> NoToken,
                     after |-> [token |-> NoToken, made |-> 0]]
    /\ au_refreshed = [token |-> NoToken, made |-> 0]
    /\ au_valid = FALSE
    /\ au_client = NoToken
    /\ au_client_request = [authorization |-> NoToken, token |-> NoToken]

AuthNext == Validate \/ Refresh \/ ClientConstruct \/ ClientRequest

AuthIdle ==
    /\ au_credentials = TokenCredentials("access 0")
    /\ au_session = NoSession /\ au_made = 0 /\ au_authenticated = FALSE
    /\ au_bot_info = NoValue /\ au_ops = MaxAuthOps + 1
    /\ au_last = [op |-> "none", met |-> Failure("not sent"),
                  ended |-> "returned", value |-> NoToken]
    /\ au_before = Snapshot
    /\ au_request = [session |-> 0, authorization |-> NoToken,
                     after |-> [token |-> NoToken, made |-> 0]]
    /\ au_refreshed = [token |-> NoToken, made |-> 0]
    /\ au_valid = FALSE /\ au_client = NoToken
    /\ au_client_request = [authorization |-> NoToken, token |-> NoToken]

-----------------------------------------------------------------------------
(* NotionSourceConnector.check, connector.py 283-337 *)

\* how the list-users probe can end: with the users, or with an exception of
\* the client: a NotionAPIError with its status, a NotionConnectionError
\* after the retries, or another exception (the ValueError of a Retry-After
\* that is no number, the JSONDecodeError of a body that is not JSON)
ProbeOk == [kind |-> "ok", exception |-> "none", status_code |-> 0]
ProbeRaised(exception, status_code) ==
    [kind |-> "raised", exception |-> exception, status_code |-> status_code]
NotProbed == [kind |-> "not called", exception |-> "none", status_code |-> 0]
ProbeOutcomes ==
    {ProbeOk, ProbeRaised("NotionConnectionError", 0), ProbeRaised("ValueError", 0),
     ProbeRaised("JSONDecodeError", 0)}
    \cup {ProbeRaised("NotionAPIError", st) : st \in {400, 401, 403, 404, 429, 500, 503}}

\* AirbyteMessage.connection_status
connection_status(status, message) == [status |-> status, message |-> message]
PermissionMessage == <<"Integration does not have sufficient permissions.", NoValue>>

\* a check without its last except clause
CheckHandled_api_only(exception) ==
    CASE exception \in {"NotionConnectionError", "NotionAPIError"} ->
            connection_status("FAILED", <<"str(e)", exception>>)
      [] OTHER -> connection_status("raised", <<"raised", exception>>)

\* lines 324-337: the except clauses of check
CheckHandled(exception) ==
    CASE exception \in {"NotionConnectionError", "NotionAPIError"} ->
            connection_status("FAILED", <<"str(e)", exception>>)
      [] OTHER -> connection_status("FAILED", <<"Unexpected error", exception>>)

\* the message check returns, or "raised" as status when an exception leaves it
CheckReturns(message) ==
    /\ ck_pc' = IF message.status = "raised" THEN "raised" ELSE "done"
    /\ ck_status' = message.status
    /\ ck_message' = message.message

\* lines 292-303: validate() and what follows when it did not succeed
CheckValidate ==
    /\ ck_pc = "validate"
    /\ LET auth_result == validate(ck_met) IN
       CASE auth_result.kind = "raised" ->
               CheckReturns(CheckHandled(auth_result.error))
         [] auth_result.kind = "result" /\ ~auth_result.success ->
               CheckReturns(connection_status("FAILED",
                            <<"Authentication failed", auth_result.error>>))
         [] OTHER ->
               /\ ck_pc' = "probe"
               /\ UNCHANGED <<ck_status, ck_message>>
    /\ UNCHANGED <<ck_met, ck_probe>>
    /\ UNCHANGED notCheck

\* lines 305-322: the probe and what follows
CheckProbe ==
    /\ ck_pc = "probe"
    /\ \E probe \in ProbeOutcomes :
          /\ ck_probe' = probe
          /\ CASE probe.kind = "ok" ->
                    CheckReturns(connection_status("SUCCEEDED", <<"Connected", NoValue>>))
               [] probe.kind = "raised" /\ probe.exception = "NotionAPIError"
                    /\ probe.status_code = 403 ->
                    CheckReturns(connection_status("FAILED", PermissionMessage))
               [] OTHER -> CheckReturns(CheckHandled(probe.exception))
    /\ UNCHANGED ck_met
    /\ UNCHANGED notCheck

CheckInit ==
    /\ ck_met \in MeOutcomes
    /\ ck_pc = "validate"
    /\ ck_probe = NotProbed
    /\ ck_status = "none"
    /\ ck_message = <<"none", NoValue>>

CheckNext == CheckValidate \/ CheckProbe

CheckIdle ==
    /\ ck_met = Failure("not sent") /\ ck_pc = "off" /\ ck_probe = NotProbed
    /\ ck_status = "none" /\ ck_message = <<"none", NoValue>>

-----------------------------------------------------------------------------
(* NotionConfig, config.py 93-242: the retry delays and their validation    *)

\* a field left out of the constructor call takes its default
NotGiven == [given |-> FALSE, v |-> 0]
Given(v) == [given |-> TRUE, v |-> v]

\* values passed for a delay: below, at and above the limits of both fields
DelayValues == {0, 1, 10, 50, 600, 601, 3000, 3001}

\* Field(default=..., ge=..., le=...) of the two delays, lines 124-135, in
\* tenths of a second
DelayField(name) ==
    IF name = "base_retry_delay" THEN [default |-> 10, ge |-> 1, le |-> 600]
    ELSE [default |-> 10 * 60, ge |-> 10, le |-> 3000]

InRange(name, v) == v >= DelayField(name).ge /\ v <= DelayField(name).le

\* @field_validator("max_retry_delay"), lines 201-210: whether v is accepted
\* against the base delay found in info.data
validate_retry_delays(v, base_delay) == ~(v < base_delay)

\* NotionConfig(base_retry_delay=b, max_retry_delay=m): the fields are
\* validated in the order of their declaration; a default is taken without
\* validation; the validator of max_retry_delay runs after its range check
\* and finds in info.data the base delay if that one was valid, else it
\* falls back to 1.0 (line 205)
ConfigConstruct ==
    /\ cf_pc = "new"
    /\ \E b, m \in {Given(v) : v \in DelayValues} \cup {NotGiven} :
          LET base_ok == ~b.given \/ InRange("base_retry_delay", b.v)
              base == IF b.given THEN b.v ELSE DelayField("base_retry_delay").default
              in_data == IF base_ok THEN base ELSE 10
              max_ok == \/ ~m.given
                        \/ /\ InRange("max_retry_delay", m.v)
                           /\ validate_retry_delays(m.v, in_data)
              max == IF m.given THEN m.v ELSE DelayField("max_retry_delay").default
          IN  /\ cf_last' = [op |-> "construct", base |-> b, max |-> m,
                             ok |-> base_ok /\ max_ok]
              /\ IF base_ok /\ max_ok
                 THEN /\ cf_pc' = "built"
                      /\ cf_base_retry_delay' = base
                      /\ cf_max_retry_delay' = max
                 ELSE /\ cf_pc' = "rejected"
                      /\ UNCHANGED <<cf_base_retry_delay, cf_max_retry_delay>>
    /\ UNCHANGED notConfig

\* config.<field> = v with validate_assignment (line 241): the assigned field
\* is validated, by its range and by the validators declared for that field;
\* a rejected assignment raises and leaves the configuration as it was
ConfigAssign ==
    /\ cf_pc = "built"
    /\ \E v \in DelayValues :
          \/ LET ok == InRange("base_retry_delay", v) IN
             /\ cf_last' = [op |-> "assign", base |-> Given(v), max |-> NotGiven, ok |-> ok]
             /\ cf_base_retry_delay' = IF ok THEN v ELSE cf_base_retry_delay
             /\ UNCHANGED cf_max_retry_delay
          \/ LET ok == /\ InRange("max_retry_delay", v)
                       /\ validate_retry_delays(v, cf_base_retry_delay) IN
             /\ cf_last' = [op |-> "assign", base |-> NotGiven, max |-> Given(v), ok |-> ok]
             /\ cf_max_retry_delay' = IF ok THEN v ELSE cf_max_retry_delay
             /\ UNCHANGED cf_base_retry_delay
    /\ UNCHANGED cf_pc
    /\ UNCHANGED notConfig

ConfigInit ==
    /\ cf_pc = "new"
    /\ cf_base_retry_delay = 0
    /\ cf_max_retry_delay = 0
    /\ cf_last = [op |-> "none", base |-> NotGiven, max |-> NotGiven, ok |-> TRUE]

ConfigNext == ConfigConstruct \/ ConfigAssign

ConfigIdle ==
    /\ cf_pc = "off" /\ cf_base_retry_delay = 0 /\ cf_max_retry_delay = 0
    /\ cf_last = [op |-> "none", base |-> NotGiven, max |-> NotGiven, ok |-> TRUE]

-----------------------------------------------------------------------------
(* run_connector, connector.py 572-624 *)

\* the commands run_connector knows, lines 606-619
Commands == {"spec", "check", "discover", "read"}

\* the step after loading a file
AfterLoad(step) ==
    CASE step = "config" -> "catalog" [] step = "catalog" -> "state" [] OTHER -> "command"

\* lines 588-603: the configuration file is opened and parsed and the
\* connector constructed from it; the catalog and the state file are loaded
\* when their paths are given. A file that cannot be opened or parsed, or a
\* configuration that is rejected, raises out of run_connector
RunLoad ==
    /\ rn_pc \in {"config", "catalog", "state"}
    /\ CASE rn_files[rn_pc] = "bad" ->
              /\ rn_pc' = "raised"
              /\ rn_exit' = rn_pc
              /\ UNCHANGED rn_connector
         [] OTHER ->
              /\ rn_pc' = AfterLoad(rn_pc)
              /\ rn_connector' = IF rn_pc = "config" THEN "open" ELSE rn_connector
              /\ UNCHANGED rn_exit
    /\ UNCHANGED <<rn_files, rn_command>>
    /\ UNCHANGED notRun

\* lines 605-622: the command is executed and what it returns printed; a
\* known command returns or raises (the connector method, json.dumps or
\* print), any other command name raises ValueError
RunCommand ==
    /\ rn_pc = "command"
    /\ \/ /\ rn_command \in Commands
          /\ rn_pc' = "close"
          /\ UNCHANGED rn_exit
       \/ /\ rn_command \in Commands
          /\ rn_pc' = "raised"
          /\ rn_exit' = "command raised"
       \/ /\ rn_command \notin Commands
          /\ rn_pc' = "raised"
          /\ rn_exit' = "unknown command"
    /\ UNCHANGED <<rn_files, rn_command, rn_connector>>
    /\ UNCHANGED notRun

\* line 624: connector.close()
RunClose ==
    /\ rn_pc = "close"
    /\ rn_connector' = "closed"
    /\ rn_pc' = "returned"
    /\ UNCHANGED <<rn_files, rn_command, rn_exit>>
    /\ UNCHANGED notRun

RunInit ==
    /\ rn_files \in [{"config", "catalog", "state"} -> {"none", "good", "bad"}]
    /\ rn_files["config"] # "none"
    /\ rn_command \in Commands \cup {"sync", ""}
    /\ rn_pc = "config"
    /\ rn_connector = "none"
    /\ rn_exit = "none"

RunNext == RunLoad \/ RunCommand \/ RunClose

RunIdle ==
    /\ rn_files = [f \in {"config", "catalog", "state"} |-> "none"]
    /\ rn_command = "" /\ rn_pc = "off" /\ rn_connector = "none" /\ rn_exit = "none"

-----------------------------------------------------------------------------
(* NotionSourceConnector.read over the pages, blocks and comments streams,  *)
(* connector.py 408-459, with PagesStream.read_records and the page         *)
(* iteration of BlocksStream and CommentsStream, streams.py 409-455,        *)
(* 548-585, 675-705                                                         *)

\* a message of read() as the model keeps it
Message(type, stream, what, count) ==
    [type |-> type, stream |-> stream, what |-> what, count |-> count]

\* a blocks stream that ignores fetch_blocks
BlocksSkipped_never(stream_name, fetch_blocks) == FALSE

\* streams.py 551-553: the blocks generator returns at once when
\* config.fetch_blocks is false
BlocksSkipped(stream_name, fetch_blocks) == stream_name = "blocks" /\ ~fetch_blocks

\* connector.py 411-418 and 533, streams.py 556-560 / 678-682: the pages
\* stream is created once when "pages" is among the streams to sync; it is
\* the pages stream of the loop, and blocks and comments iterate its
\* read_records; without it they iterate client.search_pages
PageIterator(stream_name, to_sync) ==
    IF stream_name = "pages" \/ InSeq("pages", to_sync)
    THEN "pages_stream.read_records" ELSE "client.search_pages"

\* the iteration in hand ended: read_records of the pages stream stores its
\* state (streams.py 451-453), the generator of the stream returns, read()
\* yields the final STATE and the completion LOG (connector.py 445-452)
SharedEnded(stream_name) ==
    /\ sh_pages_state' =
          IF PageIterator(stream_name, sh_to_sync) = "pages_stream.read_records"
          THEN StateAfterPass(sh_latest, sh_mode, sh_pages_state)
          ELSE sh_pages_state
    /\ sh_messages' = sh_messages \o
          <<Message("STATE", stream_name, "final", 0),
            Message("LOG", stream_name, "completed", Len(sh_iterated[stream_name]))>>
    /\ sh_pc' = "next"

\* connector.py 420-433: the loop takes the next stream and yields its start
\* LOG; the first next() on its generator runs it up to its page iterator,
\* which sends the search request, unless the blocks stream is switched off
SharedStart ==
    /\ sh_pc = "next"
    /\ sh_idx < Len(sh_to_sync)
    /\ LET stream_name == sh_to_sync[sh_idx + 1] IN
       IF BlocksSkipped(stream_name, sh_fetch_blocks)
       THEN /\ sh_messages' = sh_messages \o
                  <<Message("LOG", stream_name, "start", 0),
                    Message("STATE", stream_name, "final", 0),
                    Message("LOG", stream_name, "completed", 0)>>
            /\ UNCHANGED <<sh_pc, sh_requests>>
       ELSE /\ sh_messages' = Append(sh_messages, Message("LOG", stream_name, "start", 0))
            /\ sh_requests' = [sh_requests EXCEPT ![stream_name] = @ + 1]
            /\ sh_pc' = "iter"
    /\ sh_idx' = sh_idx + 1
    /\ sh_pos' = 0
    /\ sh_latest' = NoDT
    /\ UNCHANGED <<sh_to_sync, sh_mode, sh_fetch_blocks, sh_remote, sh_input,
                   sh_pages_state, sh_iterated>>
    /\ UNCHANGED notShared

\* the page iterator takes the next page of the listing: read_records of the
\* pages stream filters it and tracks latest_time, search_pages hands it on;
\* a page that gets through is a RECORD of the pages stream, and for blocks
\* and comments the page whose children are requested and yielded (one child
\* a page here); an exception of the predicate leaves the generator and is
\* logged by read() (connector.py 454-459)
SharedPage ==
    /\ sh_pc = "iter"
    /\ sh_pos < Len(sh_remote)
    /\ LET stream_name == sh_to_sync[sh_idx]
           raw == sh_remote[sh_pos + 1]
           filtered == PageIterator(stream_name, sh_to_sync) = "pages_stream.read_records"
           verdict == IF filtered
                      THEN should_include_record(StreamClass("pages"), raw, sh_mode,
                                                 sh_pages_state)
                      ELSE "include"
           record_time == parse_iso_datetime(raw.last_edited_time)
       IN
       CASE verdict = "TypeError"
            \/ (verdict = "include" /\ filtered /\ record_time.some /\ sh_latest.some
                /\ ~CanCompare(record_time, sh_latest)) ->
               /\ sh_messages' = Append(sh_messages, Message("LOG", stream_name, "error", 0))
               /\ sh_pc' = "next"
               /\ UNCHANGED <<sh_pages_state, sh_pos, sh_latest, sh_iterated, sh_requests>>
         [] verdict = "exclude" /\ PagesOnExcluded(sh_mode) = "break" ->
               /\ SharedEnded(stream_name)
               /\ UNCHANGED <<sh_pos, sh_latest, sh_iterated, sh_requests>>
         [] verdict = "exclude" /\ PagesOnExcluded(sh_mode) = "continue" ->
               /\ sh_pos' = sh_pos + 1
               /\ UNCHANGED <<sh_pages_state, sh_pc, sh_latest, sh_iterated, sh_requests,
                              sh_messages>>
         [] OTHER ->
               /\ sh_pos' = sh_pos + 1
               /\ sh_latest' =
                     IF filtered /\ record_time.some
                        /\ (~sh_latest.some \/ After(record_time, sh_latest))
                     THEN record_time ELSE sh_latest
               /\ sh_iterated' = [sh_iterated EXCEPT ![stream_name] = Append(@, raw.id)]
               /\ sh_requests' = IF stream_name = "pages" THEN sh_requests
                                 ELSE [sh_requests EXCEPT ![stream_name] = @ + 1]
               /\ sh_messages' = Append(sh_messages,
                                        Message("RECORD", stream_name, "record", raw.id))
               /\ UNCHANGED <<sh_pages_state, sh_pc>>
    /\ UNCHANGED <<sh_to_sync, sh_mode, sh_fetch_blocks, sh_remote, sh_input, sh_idx>>
    /\ UNCHANGED notShared

\* the listing is exhausted
SharedEnd ==
    /\ sh_pc = "iter"
    /\ sh_pos = Len(sh_remote)
    /\ SharedEnded(sh_to_sync[sh_idx])
    /\ UNCHANGED <<sh_to_sync, sh_mode, sh_fetch_blocks, sh_remote, sh_input, sh_idx,
                   sh_pos, sh_latest, sh_iterated, sh_requests>>
    /\ UNCHANGED notShared

\* no stream is left: read() returns
SharedFinish ==
    /\ sh_pc = "next"
    /\ sh_idx = Len(sh_to_sync)
    /\ sh_pc' = "done"
    /\ UNCHANGED <<sh_to_sync, sh_mode, sh_fetch_blocks, sh_remote, sh_input,
                   sh_pages_state, sh_idx, sh_pos, sh_latest, sh_iterated,
                   sh_requests, sh_messages>>
    /\ UNCHANGED notShared

\* the streams of this part, and the values of last_edited_time in a listing
SharedNames == {"pages", "blocks", "comments"}
SharedStrings ==
    {NoValue, "2024-01-15T10:29:59.000Z", "2024-01-15T10:30:01.000Z",
     "2024-01-15T10:30:01"}

SharedInit ==
    /\ sh_to_sync \in {q \in UNION {[1 .. n -> SharedNames] : n \in 1 .. 3} :
                          \A i, j \in DOMAIN q : i # j => q[i] # q[j]}
    /\ sh_mode \in SyncModes
    /\ sh_fetch_blocks \in BOOLEAN
    /\ sh_remote \in UNION {{[i \in 1 .. n |-> Record(i, f[i], NoValue)] :
                                f \in [1 .. n -> SharedStrings]} : n \in 0 .. MaxSharedPages}
    /\ sh_input \in {NoValue, "2024-01-15T10:30:00+00:00"}
    /\ sh_pages_state = sh_input
    /\ sh_pc = "next"
    /\ sh_idx = 0
    /\ sh_pos = 0
    /\ sh_latest = NoDT
    /\ sh_iterated = [n \in SharedNames |-> <<>>]
    /\ sh_requests = [n \in SharedNames |-> 0]
    /\ sh_messages = <<>>

SharedNext == SharedStart \/ SharedPage \/ SharedEnd \/ SharedFinish

SharedIdle ==
    /\ sh_to_sync = <<>> /\ sh_mode = "full_refresh" /\ sh_fetch_blocks = FALSE
    /\ sh_remote = <<>> /\ sh_input = NoValue /\ sh_pages_state = NoValue
    /\ sh_pc = "off" /\ sh_idx = 0 /\ sh_pos = 0 /\ sh_latest = NoDT
    /\ sh_iterated = <<>> /\ sh_requests = <<>> /\ sh_messages = <<>>

-----------------------------------------------------------------------------
(* NotionSourceConnector.discover, connector.py 339-378 *)

\* streams.py 735-741: the names AVAILABLE_STREAMS has a class for
AVAILABLE_STREAMS == {"users", "databases", "pages", "blocks", "comments"}

\* a stream definition that offers incremental for every stream
stream_def_all_incremental(stream) ==
    [name |-> stream.name,
     supported_sync_modes |-> <<"full_refresh", "incremental">>,
     source_defined_cursor |-> stream.supports_incremental,
     default_cursor_field |->
        IF stream.supports_incremental /\ stream.cursor_field # NoValue
        THEN <<stream.cursor_field>> ELSE NoValue]

\* lines 362-372: the definition of one stream; default_cursor_field is
\* NoValue when the key is not set
stream_def(stream) ==
    [name |-> stream.name,
     supported_sync_modes |->
        IF stream.supports_incremental
        THEN <<"full_refresh", "incremental">> ELSE <<"full_refresh">>,
     source_defined_cursor |-> stream.supports_incremental,
     default_cursor_field |->
        IF stream.supports_incremental /\ stream.cursor_field # NoValue
        THEN <<stream.cursor_field>> ELSE NoValue]

\* lines 354-374: one turn of the loop over the enabled streams
DiscoverStream ==
    /\ dc_pc = "loop"
    /\ dc_idx < Len(get_enabled_streams(dc_sync))
    /\ LET stream_name == get_enabled_streams(dc_sync)[dc_idx + 1] IN
       dc_streams' = IF stream_name \in AVAILABLE_STREAMS
                     THEN Append(dc_streams, stream_def(StreamClass(stream_name)))
                     ELSE dc_streams
    /\ dc_idx' = dc_idx + 1
    /\ UNCHANGED <<dc_sync, dc_pc>>
    /\ UNCHANGED notDiscover

\* lines 376-377: the catalog message is returned
DiscoverReturn ==
    /\ dc_pc = "loop"
    /\ dc_idx = Len(get_enabled_streams(dc_sync))
    /\ dc_pc' = "returned"
    /\ UNCHANGED <<dc_sync, dc_idx, dc_streams>>
    /\ UNCHANGED notDiscover

DiscoverInit ==
    /\ dc_sync \in [StreamNames -> BOOLEAN]
    /\ dc_pc = "loop"
    /\ dc_idx = 0
    /\ dc_streams = <<>>

DiscoverNext == DiscoverStream \/ DiscoverReturn

DiscoverIdle ==
    /\ dc_sync = [n \in StreamNames |-> FALSE] /\ dc_pc = "off" /\ dc_idx = 0
    /\ dc_streams = <<>>

-----------------------------------------------------------------------------
(* NotionSourceConnector.read, connector.py 399-461: the state of the       *)
(* streams (streams.py 28-66, 199-206, 341-343, 451-453), final_state and   *)
(* the messages                                                             *)

\* a dict keyed by stream names is a function over the names; Absent marks a
\* key the dict does not have
Absent == "<absent>"
NoEntries == [n \in StreamNames |-> Absent]
Keys(dict) == {n \in StreamNames : dict[n] # Absent}

\* a yielded message: `data` is what a STATE message holds, `shown` the
\* payload it showed when it was yielded; a run of RECORD messages of one
\* stream is kept as one entry with their number
PassMessage(type, stream, what, count, data, shown) ==
    [type |-> type, stream |-> stream, what |-> what, count |-> count,
     data |-> data, shown |-> shown]

\* AirbyteMessage.state(final_state), lines 100-108 and 442, 446: the message
\* is built around the dict it is given, the one dict final_state names
StateMessage(stream_name, what, final_state) ==
    PassMessage("STATE", stream_name, what, 0, "final_state", final_state)

\* the payload a STATE message shows now
Payload(message) ==
    IF message.data = "final_state" THEN ps_final_state ELSE message.shown

\* lines 400-403 and 421-425, streams.py 43 and 99: the StreamState a stream
\* is given holds the input entry of its name, or nothing
StreamStateOf(stream_name, input) ==
    IF input[stream_name] = Absent THEN NoValue ELSE input[stream_name]

\* a final_state that starts from the input state
InitialFinalState_input(input) == input

\* line 409: final_state = {}
InitialFinalState(input) == NoEntries

\* a stream that reports the state it is about to store
get_updated_state_ahead(ts) == StateAfterPass(ps_latest, ps_mode, ts)

\* BaseStream.get_updated_state, streams.py 199-206: a copy of the state held
get_updated_state(ts) == ts

\* streams that all store a state at the end of their pass
AdvancesState_all(stream_name) == TRUE

\* the streams whose read_records tracks the latest cursor time and stores it
\* at its end: databases (streams.py 331-343) and pages (443-453); users,
\* blocks and comments never write to their state
AdvancesState(stream_name) == stream_name \in {"databases", "pages"}

\* line 436: yield AirbyteMessage.record(stream_name, record)
YieldRecord(messages, stream_name) ==
    LET n == Len(messages) IN
    IF n > 0 /\ messages[n].type = "RECORD" /\ messages[n].stream = stream_name
    THEN [messages EXCEPT ![n].count = @ + 1]
    ELSE Append(messages, PassMessage("RECORD", stream_name, "record", 1,
                                      NoValue, NoEntries))

\* a completion whose LOG comes before the final STATE
Completion_log_first(stream_name, record_count, final_state) ==
    <<PassMessage("LOG", stream_name, "completed", record_count, NoValue, NoEntries),
      StateMessage(stream_name, "final", final_state)>>

\* lines 445-452: the final STATE and the completion LOG
Completion(stream_name, record_count, final_state) ==
    <<StateMessage(stream_name, "final", final_state),
      PassMessage("LOG", stream_name, "completed", record_count, NoValue, NoEntries)>>

\* lines 420-434: the loop takes the next stream, yields its start LOG and
\* sets record_count to 0
PassStartStream ==
    /\ ps_pc = "next"
    /\ ps_idx < Len(ps_to_sync)
    /\ LET stream_name == ps_to_sync[ps_idx + 1] IN
       /\ ps_state' = StreamStateOf(stream_name, ps_input)
       /\ ps_messages' = Append(ps_messages,
             PassMessage("LOG", stream_name, "start", 0, NoValue, NoEntries))
    /\ ps_idx' = ps_idx + 1
    /\ ps_pc' = "records"
    /\ ps_latest' = NoDT
    /\ ps_count' = 0
    /\ UNCHANGED <<ps_to_sync, ps_mode, ps_input, ps_total, ps_final_state>>
    /\ UNCHANGED notPass

\* lines 435-442: the stream yields a record it included, whose cursor value
\* parses or not; the pass tracks the latest cursor time, read() yields the
\* RECORD, counts it and on every 100th stores the stream's state in
\* final_state and yields a STATE. At most one stream of a read() yields
\* more than MaxShortRecords records here.
PassRecord ==
    /\ ps_pc = "records"
    /\ ps_total < MaxPassRecords
    /\ ps_total - ps_count <= MaxShortRecords \/ ps_count < MaxShortRecords
    /\ \E cursor_value \in {NoValue, "2024-01-15T10:30:01.000Z"} :
          LET stream_name == ps_to_sync[ps_idx]
              record_time == parse_iso_datetime(cursor_value)
              due == SnapshotDue(ps_count + 1)
              final_state == IF due
                             THEN [ps_final_state EXCEPT
                                      ![stream_name] = get_updated_state(ps_state)]
                             ELSE ps_final_state
              yielded == YieldRecord(ps_messages, stream_name)
          IN  /\ ps_latest' = IF AdvancesState(stream_name) /\ record_time.some
                                 /\ (~ps_latest.some \/ After(record_time, ps_latest))
                              THEN record_time ELSE ps_latest
              /\ ps_final_state' = final_state
              /\ ps_messages' = IF due
                                THEN Append(yielded,
                                        StateMessage(stream_name, "interim", final_state))
                                ELSE yielded
    /\ ps_count' = ps_count + 1
    /\ ps_total' = ps_total + 1
    /\ UNCHANGED <<ps_to_sync, ps_mode, ps_input, ps_pc, ps_idx, ps_state>>
    /\ UNCHANGED notPass

\* the generator of the stream returns, having stored its state (streams.py
\* 341-343 / 451-453); lines 444-452: the stream's state goes into
\* final_state, the final STATE and the completion LOG are yielded
PassComplete ==
    /\ ps_pc = "records"
    /\ LET stream_name == ps_to_sync[ps_idx]
           stored == IF AdvancesState(stream_name)
                     THEN StateAfterPass(ps_latest, ps_mode, ps_state)
                     ELSE ps_state
           final_state == [ps_final_state EXCEPT
                              ![stream_name] = get_updated_state(stored)]
       IN  /\ ps_state' = stored
           /\ ps_final_state' = final_state
           /\ ps_messages' = ps_messages \o
                                Completion(stream_name, ps_count, final_state)
    /\ ps_pc' = "next"
    /\ UNCHANGED <<ps_to_sync, ps_mode, ps_input, ps_idx, ps_latest, ps_count,
                   ps_total>>
    /\ UNCHANGED notPass

\* lines 454-459: the stream raises; read() yields an ERROR LOG and goes on
PassRaise ==
    /\ ps_pc = "records"
    /\ ps_messages' = Append(ps_messages,
          PassMessage("LOG", ps_to_sync[ps_idx], "error", 0, NoValue, NoEntries))
    /\ ps_pc' = "next"
    /\ UNCHANGED <<ps_to_sync, ps_mode, ps_input, ps_idx, ps_state, ps_latest,
                   ps_count, ps_total, ps_final_state>>
    /\ UNCHANGED notPass

\* no stream is left: read() returns
PassFinish ==
    /\ ps_pc = "next"
    /\ ps_idx = Len(ps_to_sync)
    /\ ps_pc' = "done"
    /\ UNCHANGED <<ps_to_sync, ps_mode, ps_input, ps_idx, ps_state, ps_latest,
                   ps_count, ps_total, ps_final_state, ps_messages>>
    /\ UNCHANGED notPass

\* the streams of this part; the state arguments: none, and one with an
\* entry for each of them
PassNames == {"databases", "pages", "blocks", "comments"}
PassInputs ==
    {NoEntries,
     [n \in StreamNames |->
        IF n \in PassNames THEN "2024-01-15T10:30:00+00:00" ELSE Absent]}

\* the streams to sync: one or two streams; blocks and comments are run
\* without the pages stream here, so that no stream reads through another
\* stream's state
PassSelections ==
    {q \in UNION {[1 .. n -> PassNames] : n \in 1 .. 2} :
        /\ \A i, j \in DOMAIN q : i # j => q[i] # q[j]
        /\ \A i, j \in DOMAIN q : q[i] = "pages" => q[j] \notin {"blocks", "comments"}}

PassInit ==
    /\ ps_to_sync \in PassSelections
    /\ ps_mode \in SyncModes
    /\ ps_input \in PassInputs
    /\ ps_pc = "next"
    /\ ps_idx = 0
    /\ ps_state = NoValue
    /\ ps_latest = NoDT
    /\ ps_count = 0
    /\ ps_total = 0
    /\ ps_final_state = InitialFinalState(ps_input)
    /\ ps_messages = <<>>

PassNext == PassStartStream \/ PassRecord \/ PassComplete \/ PassRaise \/ PassFinish

PassIdle ==
    /\ ps_to_sync = <<>> /\ ps_mode = "full_refresh" /\ ps_input = NoEntries
    /\ ps_pc = "off" /\ ps_idx = 0 /\ ps_state = NoValue /\ ps_latest = NoDT
    /\ ps_count = 0 /\ ps_total = 0 /\ ps_final_state = NoEntries
    /\ ps_messages = <<>>

-----------------------------------------------------------------------------
(* NotionClient.get_all_blocks, client.py 609-629, over a remote in which   *)
(* a block may be listed under several parents, itself or a descendant      *)

\* the blocks of the remote graph, and the children listings: the sequences
\* of distinct blocks
GraphBlocks == {1, 2}
GraphListings ==
    {q \in UNION {[1 .. n -> GraphBlocks] : n \in 0 .. Cardinality(GraphBlocks)} :
        \A i, j \in DOMAIN q : i # j => q[i] # q[j]}

\* a recursion that stays at its depth
NextDepth_same(current_depth) == current_depth

\* line 625: current_depth + 1
NextDepth(current_depth) == current_depth + 1

GraphTop == gr_stack[Len(gr_stack)]
SetGraphTop(f) == [gr_stack EXCEPT ![Len(gr_stack)] = f]

\* line 615: the innermost generator asks for the children of its parent_id
\* (list_block_children), which returns the finite listing or fails
GraphList ==
    /\ gr_pc = "run" /\ gr_stack # <<>> /\ ~GraphTop.listed
    /\ gr_listed' = Append(gr_listed,
          [id |-> GraphTop.parent_id, depth |-> GraphTop.current_depth])
    /\ \/ /\ gr_stack' = SetGraphTop([GraphTop EXCEPT !.listed = TRUE,
                                        !.blocks = gr_children[GraphTop.parent_id]])
          /\ UNCHANGED gr_pc
       \/ /\ gr_pc' = "raised"
          /\ UNCHANGED gr_stack
    /\ UNCHANGED <<gr_children, gr_flag, gr_max_depth, gr_yielded>>
    /\ UNCHANGED notGraph

\* lines 616-626: the innermost generator tags and yields its next block, and
\* on being resumed starts the recursion into it when line 622 says so
GraphYield ==
    /\ gr_pc = "run" /\ gr_stack # <<>> /\ GraphTop.listed
    /\ GraphTop.idx < Len(GraphTop.blocks)
    /\ LET block == GraphTop.blocks[GraphTop.idx + 1]
           advanced == SetGraphTop([GraphTop EXCEPT !.idx = GraphTop.idx + 1])
       IN
       /\ gr_yielded' = Append(gr_yielded,
             [id |-> block, depth |-> GraphTop.current_depth,
              parent_id |-> GraphTop.parent_id])
       /\ gr_stack' =
             IF Descend(gr_flag[block], GraphTop.current_depth, gr_max_depth)
             THEN Append(advanced, Frame(block, NextDepth(GraphTop.current_depth)))
             ELSE advanced
    /\ UNCHANGED <<gr_children, gr_flag, gr_max_depth, gr_pc, gr_listed>>
    /\ UNCHANGED notGraph

\* the innermost generator has no block left and returns
GraphReturn ==
    /\ gr_pc = "run" /\ gr_stack # <<>> /\ GraphTop.listed
    /\ GraphTop.idx = Len(GraphTop.blocks)
    /\ gr_stack' = SubSeq(gr_stack, 1, Len(gr_stack) - 1)
    /\ gr_pc' = IF Len(gr_stack) = 1 THEN "done" ELSE "run"
    /\ UNCHANGED <<gr_children, gr_flag, gr_max_depth, gr_yielded, gr_listed>>
    /\ UNCHANGED notGraph

GraphInit ==
    /\ gr_children \in [{RootBlock} \cup GraphBlocks -> GraphListings]
    /\ gr_flag \in [GraphBlocks -> BOOLEAN]
    /\ gr_max_depth \in 1 .. MaxGraphDepth
    /\ gr_stack = <<Frame(RootBlock, 1)>>
    /\ gr_pc = "run"
    /\ gr_yielded = <<>>
    /\ gr_listed = <<>>

GraphNext == GraphList \/ GraphYield \/ GraphReturn

GraphIdle ==
    /\ gr_children = <<>> /\ gr_flag = <<>> /\ gr_max_depth = 1
    /\ gr_stack = <<>> /\ gr_pc = "off" /\ gr_yielded = <<>> /\ gr_listed = <<>>

\* a part that is not running
ReqIdle ==
    /\ elapsed = 0 /\ stamp_count = 0 /\ stamp_gap = 0 /\ max_retries = 1
    /\ pc = "off" /\ attempt = 0 /\ outcome = NoOutcome /\ delay = 0
    /\ result = NoResult /\ http_attempts = 0 /\ rl_waits = 0 /\ backoffs = 0
    /\ seen = {}

DelayIdle ==
    /\ cd_handler = Handler(1) /\ cd_hint = NoneF /\ cd_attempt = MaxDelayAttempt + 1
    /\ cd_arg = 0 /\ cd_delay = -1 /\ cd_prev = -1

-----------------------------------------------------------------------------
(* Specifications *)

\* one client issuing _request calls one after the other
InitRequest == ReqInit /\ DelayIdle /\ PagIdle /\ InclIdle /\ StreamIdle /\
        NestedIdle /\ TreeIdle /\ ReadIdle /\ SelectIdle /\ AuthIdle /\
        CheckIdle /\ ConfigIdle /\ RunIdle /\ SharedIdle /\ DiscoverIdle /\
        PassIdle /\ GraphIdle
SpecRequest == InitRequest /\ [][ReqNext]_vars

\* calculate_delay called with attempt = 0, 1, 2, ...
InitDelay == DelayInit /\ ReqIdle /\ PagIdle /\ InclIdle /\ StreamIdle /\
        NestedIdle /\ TreeIdle /\ ReadIdle /\ SelectIdle /\ AuthIdle /\
        CheckIdle /\ ConfigIdle /\ RunIdle /\ SharedIdle /\ DiscoverIdle /\
        PassIdle /\ GraphIdle
SpecDelay == InitDelay /\ [][CalcDelay]_vars

\* one _paginate generator read by one consumer
InitPaginate == PagInit /\ ReqIdle /\ DelayIdle /\ InclIdle /\ StreamIdle /\
        NestedIdle /\ TreeIdle /\ ReadIdle /\ SelectIdle /\ AuthIdle /\
        CheckIdle /\ ConfigIdle /\ RunIdle /\ SharedIdle /\ DiscoverIdle /\
        PassIdle /\ GraphIdle
SpecPaginate == InitPaginate /\ [][PagNext]_vars

\* _should_include_record called once on any stream, record, mode and state
InitInclude == InclInit /\ ReqIdle /\ DelayIdle /\ PagIdle /\ StreamIdle /\
        NestedIdle /\ TreeIdle /\ ReadIdle /\ SelectIdle /\ AuthIdle /\
        CheckIdle /\ ConfigIdle /\ RunIdle /\ SharedIdle /\ DiscoverIdle /\
        PassIdle /\ GraphIdle
SpecInclude == InitInclude /\ [][Include]_vars

\* one read_records pass of the databases or the pages stream
InitStream == StreamInit /\ ReqIdle /\ DelayIdle /\ PagIdle /\ InclIdle /\
        NestedIdle /\ TreeIdle /\ ReadIdle /\ SelectIdle /\ AuthIdle /\
        CheckIdle /\ ConfigIdle /\ RunIdle /\ SharedIdle /\ DiscoverIdle /\
        PassIdle /\ GraphIdle
SpecStream == InitStream /\ [][StreamNext]_vars

\* one pass of a stream as the read command of the command line runs it,
\* with any state file
InitCommandLine == InitStream /\ st_mode = CommandLineMode
SpecCommandLine == InitCommandLine /\ [][StreamNext]_vars

\* one read_records pass of the blocks or the comments stream
InitNested == NestedInit /\ ReqIdle /\ DelayIdle /\ PagIdle /\ InclIdle /\
        StreamIdle /\ TreeIdle /\ ReadIdle /\ SelectIdle /\ AuthIdle /\
        CheckIdle /\ ConfigIdle /\ RunIdle /\ SharedIdle /\ DiscoverIdle /\
        PassIdle /\ GraphIdle
SpecNested == InitNested /\ [][NestedNext]_vars

\* get_all_blocks read to its end on any tree of blocks
InitTree == TreeInit /\ ReqIdle /\ DelayIdle /\ PagIdle /\ InclIdle /\
        StreamIdle /\ NestedIdle /\ ReadIdle /\ SelectIdle /\ AuthIdle /\
        CheckIdle /\ ConfigIdle /\ RunIdle /\ SharedIdle /\ DiscoverIdle /\
        PassIdle /\ GraphIdle
SpecTree == InitTree /\ [][TreeNext]_vars

\* read() over a list of streams, each yielding any number of records and
\* then completing or raising
InitRead == ReadInit /\ ReqIdle /\ DelayIdle /\ PagIdle /\ InclIdle /\
        StreamIdle /\ NestedIdle /\ TreeIdle /\ SelectIdle /\ AuthIdle /\
        CheckIdle /\ ConfigIdle /\ RunIdle /\ SharedIdle /\ DiscoverIdle /\
        PassIdle /\ GraphIdle
SpecRead == InitRead /\ [][ReadNext]_vars

\* read() choosing and running its streams, for every setting of the five
\* toggles and every catalog
InitSelect == SelectInit /\ ReqIdle /\ DelayIdle /\ PagIdle /\ InclIdle /\
        StreamIdle /\ NestedIdle /\ TreeIdle /\ ReadIdle /\ AuthIdle /\
        CheckIdle /\ ConfigIdle /\ RunIdle /\ SharedIdle /\ DiscoverIdle /\
        PassIdle /\ GraphIdle
SpecSelect == InitSelect /\ [][SelectNext]_vars

\* any sequence of validate() and refresh_oauth_token() calls on one
\* authenticator
InitAuth == AuthInit /\ ReqIdle /\ DelayIdle /\ PagIdle /\ InclIdle /\
        StreamIdle /\ NestedIdle /\ TreeIdle /\ ReadIdle /\ SelectIdle /\
        CheckIdle /\ ConfigIdle /\ RunIdle /\ SharedIdle /\ DiscoverIdle /\
        PassIdle /\ GraphIdle
SpecAuth == InitAuth /\ [][AuthNext]_vars

\* check() for everything its two requests can meet
InitCheck == CheckInit /\ ReqIdle /\ DelayIdle /\ PagIdle /\ InclIdle /\
        StreamIdle /\ NestedIdle /\ TreeIdle /\ ReadIdle /\ SelectIdle /\
        AuthIdle /\ ConfigIdle /\ RunIdle /\ SharedIdle /\ DiscoverIdle /\
        PassIdle /\ GraphIdle
SpecCheck == InitCheck /\ [][CheckNext]_vars

\* a NotionConfig constructed and then assigned to, any number of times
InitConfig == ConfigInit /\ ReqIdle /\ DelayIdle /\ PagIdle /\ InclIdle /\
        StreamIdle /\ NestedIdle /\ TreeIdle /\ ReadIdle /\ SelectIdle /\
        AuthIdle /\ CheckIdle /\ RunIdle /\ SharedIdle /\ DiscoverIdle /\
        PassIdle /\ GraphIdle
SpecConfig == InitConfig /\ [][ConfigNext]_vars

\* run_connector on any files and any command name
InitRun == RunInit /\ ReqIdle /\ DelayIdle /\ PagIdle /\ InclIdle /\
        StreamIdle /\ NestedIdle /\ TreeIdle /\ ReadIdle /\ SelectIdle /\
        AuthIdle /\ CheckIdle /\ ConfigIdle /\ SharedIdle /\ DiscoverIdle /\
        PassIdle /\ GraphIdle
SpecRun == InitRun /\ [][RunNext]_vars

\* read() over any order of pages, blocks and comments, on any listing of
\* pages
InitShared == SharedInit /\ ReqIdle /\ DelayIdle /\ PagIdle /\ InclIdle /\
        StreamIdle /\ NestedIdle /\ TreeIdle /\ ReadIdle /\ SelectIdle /\
        AuthIdle /\ CheckIdle /\ ConfigIdle /\ RunIdle /\ DiscoverIdle /\
        PassIdle /\ GraphIdle
SpecShared == InitShared /\ [][SharedNext]_vars

\* discover() for every setting of the five toggles
InitDiscover == DiscoverInit /\ ReqIdle /\ DelayIdle /\ PagIdle /\
        InclIdle /\ StreamIdle /\ NestedIdle /\ TreeIdle /\ ReadIdle /\
        SelectIdle /\ AuthIdle /\ CheckIdle /\ ConfigIdle /\ RunIdle /\
        SharedIdle /\ PassIdle /\ GraphIdle
SpecDiscover == InitDiscover /\ [][DiscoverNext]_vars

\* read() over one or two of the databases, pages, blocks and comments
\* streams, each yielding any number of records and then completing or
\* raising
InitPass == PassInit /\ ReqIdle /\ DelayIdle /\ PagIdle /\ InclIdle /\
        StreamIdle /\ NestedIdle /\ TreeIdle /\ ReadIdle /\ SelectIdle /\
        AuthIdle /\ CheckIdle /\ ConfigIdle /\ RunIdle /\ SharedIdle /\
        DiscoverIdle /\ GraphIdle
SpecPass == InitPass /\ [][PassNext]_vars

\* get_all_blocks over the remote graphs of two blocks, cycles included
InitGraph == GraphInit /\ ReqIdle /\ DelayIdle /\ PagIdle /\ InclIdle /\
        StreamIdle /\ NestedIdle /\ TreeIdle /\ ReadIdle /\ SelectIdle /\
        AuthIdle /\ CheckIdle /\ ConfigIdle /\ RunIdle /\ SharedIdle /\
        DiscoverIdle /\ PassIdle
SpecGraph == InitGraph /\ [][GraphNext]_vars

\* the same, read by a consumer that goes on asking until the generator ends
SpecGraphFair == InitGraph /\ [][GraphNext]_vars /\ WF_vars(GraphNext)

-----------------------------------------------------------------------------
(* Claims about _request, the rate limiter and the retry handler *)

\* the attempt in hand has been answered and the answer handled
Answered == pc \in {"backoff", "returned", "raised"} /\ outcome.kind # "none"

RetryableFailure(o) ==
    \/ o.kind \in {"timeout", "connection"}
    \/ o.kind = "response" /\ (o.status = 429 \/ o.status >= 500)

\* C1: a _request call issues at most max_retries + 1 HTTP attempts whatever
\* the attempts produce; every attempt, of whatever failure kind, uses up one
\* unit of the one budget (the attempts issued are the retries made plus the
\* one in hand); a successful attempt with a JSON body ends the call, which
\* returns the body.
C1_AttemptBudget ==
    /\ http_attempts <= max_retries + 1
    /\ backoffs = attempt
    /\ http_attempts = attempt + (IF Answered THEN 1 ELSE 0)
    /\ (outcome.kind = "response" /\ ResponseOk(outcome) /\ outcome.body = "json")
          => pc = "returned" /\ result = Returned
    /\ pc = "returned" => outcome.kind = "response" /\ ResponseOk(outcome)

\* a call whose three attempts were a 5xx, a timeout and a 429, in any order,
\* and which ended there
C1_Witness ==
    /\ pc = "raised"
    /\ max_retries = 2
    /\ http_attempts = max_retries + 1
    /\ seen = {"5xx", "timeout", "429"}

\* C2: when the last attempt of the budget fails retryably the call raises
\* the error classified from the last response (NotionRateLimitError for 429,
\* NotionAPIError for a status >= 500), whatever its Retry-After header, or
\* NotionConnectionError reporting max_retries + 1 attempts after a timeout
\* or a connection failure.
C2_ExhaustedRaises ==
    (Answered /\ attempt = max_retries /\ RetryableFailure(outcome)) =>
        /\ pc = "raised"
        /\ outcome.kind \in {"timeout", "connection"}
              => result = Raise("NotionConnectionError", 0, max_retries + 1)
        /\ (outcome.kind = "response" /\ outcome.status = 429)
              => result = Raise("NotionRateLimitError", 429, 0)
        /\ (outcome.kind = "response" /\ outcome.status >= 500)
              => result = Raise("NotionAPIError", outcome.status, 0)

\* the last attempt of a call was answered 429 with an HTTP-date Retry-After
C2_Witness ==
    /\ Answered /\ attempt = max_retries
    /\ outcome.kind = "response" /\ outcome.status = 429
    /\ outcome.retry_after = HttpDate

C4_RetryIffShouldRetry ==
    (Answered /\ outcome.kind = "response" /\ ~ResponseOk(outcome)
        /\ AttemptsRemain(attempt, max_retries)) =>
        (pc = "backoff" <=> should_retry(outcome))

\* a 501 answered with attempts remaining
C4_Witness ==
    /\ Answered /\ outcome.kind = "response" /\ outcome.status = 501
    /\ AttemptsRemain(attempt, max_retries)

-----------------------------------------------------------------------------
(* Claims about _paginate *)

\* the results of pages 1 .. k of a listing, one after the other
RECURSIVE Concat(_, _)
Concat(pages, k) ==
    IF k = 0 THEN <<>> ELSE Concat(pages, k - 1) \o pages[k].results

IsPrefix(a, b) == Len(a) <= Len(b) /\ a = SubSeq(b, 1, Len(a))

\* C7: for a listing of k pages whose first k - 1 pages report has_more with a
\* cursor and whose page k reports no more or gives no cursor, _paginate
\* yields the pages' results one after the other, nothing lost, repeated or
\* out of order, and is exhausted after exactly k requests; until then what
\* it has yielded is the start of that sequence and it has sent no more
\* requests than pages.
C7_PaginateAll ==
    /\ IsPrefix(pg_yielded, Concat(pg_pages, Len(pg_pages)))
    /\ Len(pg_requests) <= Len(pg_pages)
    /\ pg_pc = "done" =>
          /\ pg_yielded = Concat(pg_pages, Len(pg_pages))
          /\ Len(pg_requests) = Len(pg_pages)

\* three pages read to the end, the last one reporting has_more with an empty
\* cursor
C7_Witness ==
    /\ pg_pc = "done"
    /\ Len(pg_pages) = 3
    /\ Len(pg_yielded) >= 4
    /\ pg_pages[3].has_more /\ pg_pages[3].next_cursor = EmptyCursor

-----------------------------------------------------------------------------
(* The inclusion predicate and the two read passes *)

\* the cursor datetime of the record the predicate was called on, and T
InCursor == parse_iso_datetime(CursorValue(in_stream, in_record))
InLastSync == parse_iso_datetime(in_state)

\* the predicate gets as far as comparing the cursor datetime with T
InCompares ==
    /\ in_mode = "incremental"
    /\ in_stream.supports_incremental
    /\ in_stream.cursor_field # NoValue
    /\ InCursor.some
    /\ InLastSync.some

\* C8: the predicate returns a boolean for every record and every stored
\* state, never raising; it excludes a record only when the mode is
\* incremental, the stream supports incremental and has a cursor field, the
\* cursor value parses as a datetime, a last-sync-time T is stored and the
\* cursor datetime is <= T. A cursor equal to T is excluded, T + 1 second is
\* included, a missing or unparseable cursor is included whatever T is.
C8_ExcludedOnlyWhen ==
    in_result # "none" =>
        /\ in_result \in {"include", "exclude"}
        /\ in_result = "exclude" => (InCompares /\ InCursor.sec <= InLastSync.sec)
        /\ (InCompares /\ InCursor.sec = InLastSync.sec) => in_result = "exclude"
        /\ (InCompares /\ InCursor.sec = InLastSync.sec + 1) => in_result = "include"
        /\ ~InCursor.some => in_result = "include"

\* the predicate was called in incremental mode on a record edited at
\* 10:30:01Z with a last_sync_time stored without an offset
C8_Witness ==
    /\ in_result # "none"
    /\ in_mode = "incremental" /\ in_stream.name = "databases"
    /\ in_record.last_edited_time = "2024-01-15T10:30:01.000Z"
    /\ in_state = "2024-01-15T10:30:00"

\* the record passes the inclusion predicate of the pass: the stored state is
\* the one the pass began with, it changes only after the loop
Passes(r) == should_include_record(st_stream, r, st_mode, st_state0) = "include"
Fails(r) == should_include_record(st_stream, r, st_mode, st_state0) = "exclude"

\* the longest prefix of s in which every record passes
LongestPassingPrefix(s) ==
    LET ks == {k \in 0 .. Len(s) : \A i \in 1 .. k : Passes(s[i])}
        k == CHOOSE m \in ks : \A n \in ks : n <= m
    IN  SubSeq(s, 1, k)

\* C9: in incremental mode the pages stream emits exactly the longest prefix
\* of the search results in which every record passes the inclusion
\* predicate, nothing after the first failing record even if it would pass;
\* in full_refresh mode it emits every search result. While the pass runs
\* the records emitted so far are a prefix of that sequence.
C9_PagesPrefix ==
    st_stream.name = "pages" =>
        /\ st_mode = "incremental" =>
              /\ IsPrefix(st_emitted, LongestPassingPrefix(st_remote))
              /\ st_pc = "done" => st_emitted = LongestPassingPrefix(st_remote)
        /\ st_mode = "full_refresh" =>
              /\ IsPrefix(st_emitted, st_remote)
              /\ st_pc = "done" => st_emitted = st_remote

\* an incremental pages pass over three results, the second failing the
\* predicate and the third passing it, ended with only the first emitted
C9_Witness ==
    /\ st_stream.name = "pages" /\ st_mode = "incremental" /\ st_pc = "done"
    /\ Len(st_remote) = 3
    /\ Passes(st_remote[1]) /\ Fails(st_remote[2]) /\ Passes(st_remote[3])
    /\ st_emitted = <<st_remote[1]>>

\* C10: in either mode the databases stream emits exactly the listed
\* databases that pass the inclusion predicate, in listing order: a failing
\* record neither ends the pass nor keeps a later passing record from being
\* emitted. While the pass runs, the records emitted are the passing ones
\* among the records taken from the listing so far.
C10_DatabasesSubsequence ==
    st_stream.name = "databases" =>
        /\ st_emitted = SelectSeq(SubSeq(st_remote, 1, st_pos), Passes)
        /\ st_pc = "done" =>
              /\ st_pos = Len(st_remote)
              /\ st_emitted = SelectSeq(st_remote, Passes)

\* an incremental databases pass over three listed databases, the first
\* failing the predicate and the third passing it, ended with the third
\* emitted
C10_Witness ==
    /\ st_stream.name = "databases" /\ st_mode = "incremental" /\ st_pc = "done"
    /\ Len(st_remote) = 3
    /\ Fails(st_remote[1]) /\ Passes(st_remote[3])
    /\ st_emitted # <<>>
    /\ st_emitted[Len(st_emitted)] = st_remote[3]

\* what a pass emits and how many listed records it takes, from the stream,
\* the mode, the listing and the state the pass began with
ExpectedEmitted ==
    IF st_stream.name = "pages" /\ st_mode = "incremental"
    THEN LongestPassingPrefix(st_remote) ELSE SelectSeq(st_remote, Passes)
ExpectedTaken ==
    IF st_stream.name = "pages" /\ st_mode = "incremental"
    THEN Len(LongestPassingPrefix(st_remote)) ELSE Len(st_remote)

EmittedTimes ==
    {t \in {parse_iso_datetime(CursorValue(st_stream, st_emitted[i])) :
                i \in 1 .. Len(st_emitted)} : t.some}

\* C11: after a pages or databases pass that ran to completion, in
\* incremental mode with at least one emitted record whose cursor value
\* parses, last_sync_time is the maximum cursor time among the emitted
\* records and is not earlier than the last_sync_time before the pass; in
\* full_refresh mode, or with no such record, the state is as it was.
C11_StateAfterPass ==
    st_pc = "done" =>
        IF st_mode = "incremental" /\ EmittedTimes # {}
        THEN LET now == get_last_sync_time(st_state)
                 before == get_last_sync_time(st_state0)
             IN  /\ now.some
                 /\ \E t \in EmittedTimes : t.sec = now.sec
                 /\ \A t \in EmittedTimes : t.sec <= now.sec
                 /\ before.some => now.sec >= before.sec
        ELSE st_state = st_state0

\* an incremental pass with no stored state that emitted three records whose
\* latest cursor time is on the second one
C11_Witness ==
    /\ st_pc = "done" /\ st_mode = "incremental" /\ st_state0 = NoValue
    /\ Len(st_emitted) = 3
    /\ st_emitted[1].last_edited_time = "2024-01-15T10:29:59.000Z"
    /\ st_emitted[2].last_edited_time = "2024-01-15T10:30:01.000Z"
    /\ st_emitted[3].last_edited_time = "2024-01-15T10:30:00.000Z"
    /\ st_state = "2024-01-15T10:30:01+00:00"

\* the child records delivered that pass the inclusion predicate of the pass
PassesNested(e) ==
    should_include_record(nb_stream, e.record, nb_mode, nb_state) = "include"

\* C12: in the blocks and comments streams an exception raised while the
\* blocks or comments of a page are fetched does not end the stream: the
\* except clause logs it, every page the page sequence yields afterwards is
\* processed and its records are emitted, and the pass raises only when the
\* page sequence itself does.
C12_ChildErrorSkipsPage ==
    /\ nb_pc = "raised" => nb_error = "pages"
    /\ nb_emitted = SelectSeq(nb_delivered, PassesNested)
    /\ Len(nb_logged) =
          Cardinality({i \in 1 .. Len(nb_pages) :
                          nb_pages[i].fetch \in {"fetch raised", "predicate raised"}})
    /\ \A i \in 1 .. Len(nb_pages) :
          (nb_pages[i].fetch = "reading") => (i = Len(nb_pages) /\ nb_pc = "children")

\* a pass that ended normally after the fetch for its first page raised and
\* a record of its second page was emitted
C12_Witness ==
    /\ nb_pc = "done"
    /\ Len(nb_pages) = 2
    /\ nb_pages[1].fetch = "fetch raised" /\ nb_pages[2].fetch = "read"
    /\ \E i \in 1 .. Len(nb_emitted) : nb_emitted[i].page_id = 2

\* the depth of a block in the tree: 1 for the page's own children
RECURSIVE TrueDepth(_)
TrueDepth(b) == IF bt_parent[b] = RootBlock THEN 1 ELSE 1 + TrueDepth(bt_parent[b])

Yielded(b) == \E i \in 1 .. Len(bt_yielded) : bt_yielded[i].id = b
Listed(b) == \E i \in 1 .. Len(bt_listed) : bt_listed[i] = b

\* C13: for any block tree and max_depth, get_all_blocks yields only blocks
\* tagged with a depth in 1..max_depth (their depth in the tree), never asks
\* for the children of a block at depth max_depth even when its has_children
\* flag is set, and, read to its end, has listed the children of every
\* yielded block below max_depth whose flag is set and yielded them.
C13_DepthBounded ==
    /\ \A i \in 1 .. Len(bt_yielded) :
          /\ bt_yielded[i].depth \in 1 .. bt_max_depth
          /\ bt_yielded[i].depth = TrueDepth(bt_yielded[i].id)
          /\ bt_yielded[i].parent_id = bt_parent[bt_yielded[i].id]
    /\ \A i \in 1 .. Len(bt_listed) :
          bt_listed[i] # RootBlock =>
              /\ Yielded(bt_listed[i])
              /\ bt_flag[bt_listed[i]]
              /\ TrueDepth(bt_listed[i]) < bt_max_depth
    /\ bt_pc = "done" =>
          \A b \in DOMAIN bt_parent :
              (Yielded(b) /\ bt_flag[b] /\ TrueDepth(b) < bt_max_depth) =>
                  /\ Listed(b)
                  /\ \A c \in DOMAIN bt_parent : bt_parent[c] = b => Yielded(c)

\* a traversal read to its end with max_depth 2 over a chain of three blocks
\* all flagged: the second block was reached by recursion and the third,
\* below it, was neither asked for nor yielded
C13_Witness ==
    /\ bt_pc = "done" /\ bt_max_depth = 2
    /\ \E a, b, c \in DOMAIN bt_parent :
          /\ bt_parent[a] = RootBlock /\ bt_parent[b] = a /\ bt_parent[c] = b
          /\ bt_flag[a] /\ bt_flag[b]
          /\ Listed(a) /\ Yielded(b) /\ ~Listed(b) /\ ~Yielded(c)

\* the stream the driver ran last has ended, in the way given
StreamEnded(how) ==
    /\ rd_pc \in {"next", "done"}
    /\ rd_idx > 0
    /\ rd_outcomes[rd_idx] = how

\* the interim STATE messages for n records: one after each 100th record
InterimStates(n) == [k \in 1 .. (n \div 100) |-> 100 * k]

\* C14: for a stream that completes normally after yielding n records,
\* read() emits exactly floor(n/100) + 1 STATE messages for it: one right
\* after each record whose running count is a multiple of 100 and a final
\* one after the last record. While the stream runs, the STATE messages so
\* far are those after the 100th, 200th, ... record.
C14_StateMessages ==
    /\ rd_pc = "records" => rd_states = InterimStates(rd_records)
    /\ StreamEnded("completed") =>
          /\ Len(rd_states) = (rd_records \div 100) + 1
          /\ rd_states = Append(InterimStates(rd_records), rd_records)

\* a stream completed after 250 records with STATE messages after the 100th,
\* the 200th and the 250th
C14_Witness ==
    /\ StreamEnded("completed")
    /\ rd_records = 250
    /\ rd_states = <<100, 200, 250>>

\* C15: if iterating a stream raises after j records, read() has emitted
\* those j RECORD messages, then exactly one ERROR LOG for the stream and
\* neither a final STATE nor a completion LOG; it goes on to run every
\* remaining stream and never lets the exception out.
C15_StreamErrorContained ==
    /\ rd_pc # "raised"
    /\ StreamEnded("raised") =>
          /\ rd_records = rd_count
          /\ rd_states = InterimStates(rd_records)
          /\ rd_logs = <<LogMessage("INFO", "start", 0, 0),
                         LogMessage("ERROR", "error", 0, rd_records)>>
    /\ Len(rd_outcomes) = IF rd_pc = "records" THEN rd_idx - 1 ELSE rd_idx
    /\ rd_pc = "done" => Len(rd_outcomes) = Len(rd_to_sync)

\* read() returned after both its streams raised, the second one after 150
\* records and the interim STATE that followed the 100th
C15_Witness ==
    /\ rd_pc = "done"
    /\ rd_outcomes = <<"raised", "raised">>
    /\ rd_records = 150
    /\ rd_states = <<100>>

\* the names the catalog gives, and those of them that are enabled
CatalogNamed == {sl_catalog.names[i] : i \in 1 .. Len(sl_catalog.names)}
EnabledSet == {n \in StreamNames : sl_sync[n]}
RanSet == {sl_ran[i] : i \in 1 .. Len(sl_ran)}

\* the enabled streams in the fixed order
RECURSIVE EnabledFrom(_)
EnabledFrom(k) ==
    IF k > Len(StreamOrder) THEN <<>>
    ELSE IF sl_sync[StreamOrder[k]] THEN <<StreamOrder[k]>> \o EnabledFrom(k + 1)
    ELSE EnabledFrom(k + 1)

\* C16: every stream read() runs is configuration-enabled. Without a catalog
\* the streams run are all enabled streams in the order users, databases,
\* pages, blocks, comments; with a catalog naming at least one enabled
\* stream, exactly the catalog's enabled streams run, disabled and unknown
\* names dropped; with a catalog naming no enabled stream, all enabled
\* streams run.
C16_StreamsRun ==
    /\ RanSet \subseteq EnabledSet
    /\ sl_pc = "done" =>
          /\ sl_catalog = NoCatalog => sl_ran = EnabledFrom(1)
          /\ (sl_catalog # NoCatalog /\ CatalogNamed \cap EnabledSet # {}) =>
                RanSet = CatalogNamed \cap EnabledSet
          /\ (sl_catalog # NoCatalog /\ CatalogNamed \cap EnabledSet = {}) =>
                sl_ran = EnabledFrom(1)

\* read() returned having run only blocks, the one enabled stream of a
\* catalog that also names the disabled users stream, with pages enabled too
C16_Witness ==
    /\ sl_pc = "done"
    /\ sl_catalog = Catalog(<<"users", "blocks">>)
    /\ ~sl_sync["users"] /\ sl_sync["blocks"] /\ sl_sync["pages"]
    /\ sl_ran = <<"blocks">>

\* validation succeeds: a status that is no error with a user object as body
MeSucceeds(met) == met.kind = "response" /\ met.status < 400 /\ met.body = "user"

\* C17: check() never raises and always returns a CONNECTION_STATUS whose
\* status is SUCCEEDED exactly when validation and the list-users probe both
\* succeed; FAILED with the authenticator's error message when validation
\* fails, the probe then not being attempted; FAILED with the permission
\* message when the probe fails with 403; FAILED for every other failure.
C17_CheckStatus ==
    /\ ck_pc # "raised"
    /\ ck_pc = "probe" => MeSucceeds(ck_met)
    /\ ck_pc = "done" =>
          /\ ck_status \in {"SUCCEEDED", "FAILED"}
          /\ ck_status = "SUCCEEDED" <=> (MeSucceeds(ck_met) /\ ck_probe = ProbeOk)
          /\ ~MeSucceeds(ck_met) =>
                /\ ck_probe = NotProbed
                /\ ck_message = <<"Authentication failed", validate(ck_met).error>>
          /\ ck_probe = ProbeRaised("NotionAPIError", 403) =>
                ck_message = PermissionMessage

\* a check whose probe raised something that is no Notion error, after a
\* successful validation
C17_Witness ==
    /\ ck_pc = "done"
    /\ MeSucceeds(ck_met)
    /\ ck_probe = ProbeRaised("ValueError", 0)
    /\ ck_status = "FAILED"

RefreshSucceeded == au_last.op = "refresh" /\ au_last.value # NoToken

\* C19: after refresh_oauth_token succeeds the configuration's access token
\* is the returned one, the refresh token is the rotated one when the server
\* gave one, is_authenticated is false, and the authenticator's next request
\* goes out on a new session carrying the new token.
C19_RefreshInstallsToken ==
    /\ RefreshSucceeded =>
          /\ au_before.credentials.kind = "oauth2"
          /\ au_before.credentials.refresh_token # NoToken
          /\ au_last.value = au_last.met.body.access_token
          /\ get_token(au_credentials) = au_last.value
          /\ au_credentials.refresh_token =
                IF au_last.met.body.refresh_token # NoToken
                THEN au_last.met.body.refresh_token
                ELSE au_before.credentials.refresh_token
          /\ ~au_authenticated
          /\ au_session = NoSession
    /\ au_request.after.token # NoToken =>
          /\ au_request.authorization = au_request.after.token
          /\ au_request.session > au_request.after.made

\* a validate() sent on a second session with the token of the refresh that
\* came after the first session was made
C19_Witness ==
    /\ au_last.op = "validate"
    /\ au_request.after = [token |-> "access 1", made |-> 1]
    /\ au_request.session = 2
    /\ au_request.authorization = "access 1"

\* the refresh could be tried, by the credentials before the call
WasApplicable ==
    /\ au_before.credentials.kind = "oauth2"
    /\ au_before.credentials.refresh_token # NoToken

\* the request of the refresh failed, or its response gave no access_token
RefreshRequestFailed ==
    \/ au_last.met.kind = "exception"
    \/ au_last.met.kind = "response" /\ au_last.met.status >= 400
    \/ au_last.met.kind = "response" /\ au_last.met.body.access_token = NoToken

-----------------------------------------------------------------------------
(* Claims about the configuration *)

\* C21: max_retry_delay >= base_retry_delay holds of every NotionConfig that
\* exists: a construction with max_retry_delay < base_retry_delay fails, and
\* no sequence of validated field assignments reaches a configuration with
\* max_retry_delay < base_retry_delay.
C21_DelaysOrdered ==
    cf_pc = "built" => cf_max_retry_delay >= cf_base_retry_delay

\* a configuration built with base 1.0 s and max 5.0 s whose base_retry_delay
\* was then assigned 60.0 s, and the assignment was accepted
C21_Witness ==
    /\ cf_pc = "built"
    /\ cf_last = [op |-> "assign", base |-> Given(600), max |-> NotGiven, ok |-> TRUE]
    /\ cf_max_retry_delay = 50

-----------------------------------------------------------------------------
(* Claims about run_connector *)

\* C22: run_connector calls connector.close() on every exit path: after spec,
\* check, discover and read complete normally, and also when the command name
\* is unrecognized or the executed command raises.
C22_AlwaysClosed ==
    (rn_pc = "returned" \/ (rn_pc = "raised"
                            /\ rn_exit \in {"command raised", "unknown command"}))
        => rn_connector = "closed"

\* run_connector was left by the ValueError of the command name "sync", with
\* the connector constructed
C22_Witness ==
    /\ rn_pc = "raised" /\ rn_exit = "unknown command" /\ rn_command = "sync"
    /\ rn_connector # "none"

-----------------------------------------------------------------------------
(* Claims about the pages stream and the streams that depend on it *)

\* the messages read() yielded for one stream
MessagesOf(stream_name) ==
    SelectSeq(sh_messages, LAMBDA m : m.stream = stream_name)

\* the stream was run and its generator returned
SharedCompleted(stream_name) ==
    \E i \in DOMAIN sh_messages :
        sh_messages[i].stream = stream_name /\ sh_messages[i].what = "completed"

\* C23: with fetch_blocks false the blocks stream yields no record and sends
\* no request, neither a page search nor a block listing, in either mode;
\* read() still yields its start LOG, one final STATE and a completion LOG
\* reporting 0 records.
C23_BlocksSwitchedOff ==
    ~sh_fetch_blocks =>
        /\ sh_iterated["blocks"] = <<>>
        /\ sh_requests["blocks"] = 0
        /\ MessagesOf("blocks") \in
              {<<>>, <<Message("LOG", "blocks", "start", 0),
                       Message("STATE", "blocks", "final", 0),
                       Message("LOG", "blocks", "completed", 0)>>}
        /\ (sh_pc = "done" /\ InSeq("blocks", sh_to_sync)) => SharedCompleted("blocks")

\* an incremental read() of pages, blocks and comments with fetch_blocks
\* false has returned; pages were listed and the other two streams sent
\* requests
C23_Witness ==
    /\ ~sh_fetch_blocks /\ sh_mode = "incremental" /\ sh_pc = "done"
    /\ sh_to_sync = <<"blocks", "pages", "comments">>
    /\ Len(sh_remote) = MaxSharedPages
    /\ SharedCompleted("blocks")
    /\ sh_requests["pages"] > 0 /\ sh_requests["comments"] > 0

\* the ids of the pages that pass the inclusion predicate against the pages
\* watermark of the input state, up to the first page that does not
RECURSIVE PassingInput(_)
PassingInput(k) ==
    IF k > Len(sh_remote) THEN <<>>
    ELSE IF should_include_record(StreamClass("pages"), sh_remote[k], sh_mode,
                                  sh_input) = "include"
         THEN <<sh_remote[k].id>> \o PassingInput(k + 1)
         ELSE <<>>

\* C26: in one incremental pass the pages stream and every stream handed the
\* shared pages stream iterate the same pages, those passing the inclusion
\* predicate against the pages watermark of the input state, whichever of
\* them run and in whatever order.
C26_SamePages ==
    (sh_mode = "incremental" /\ InSeq("pages", sh_to_sync)) =>
        \A n \in SharedNames :
            (SharedCompleted(n) /\ ~BlocksSkipped(n, sh_fetch_blocks))
                => sh_iterated[n] = PassingInput(1)

\* an incremental read() of pages and then blocks has returned, both streams
\* completed; pages were emitted and no page reached the blocks stream
C26_Witness ==
    /\ sh_mode = "incremental" /\ sh_fetch_blocks /\ sh_pc = "done"
    /\ sh_to_sync = <<"pages", "blocks">>
    /\ SharedCompleted("pages") /\ SharedCompleted("blocks")
    /\ sh_iterated["pages"] # <<>>
    /\ sh_iterated["blocks"] = <<>>

-----------------------------------------------------------------------------
(* Claims about discover *)

\* the position of a stream in the fixed order
RECURSIVE OrderIndex(_, _)
OrderIndex(name, k) ==
    IF k > Len(StreamOrder) THEN 0
    ELSE IF StreamOrder[k] = name THEN k ELSE OrderIndex(name, k + 1)

\* C24: for each of the 32 settings of the five toggles discover() returns
\* exactly the enabled streams, in the order users, databases, pages, blocks,
\* comments; each lists full_refresh, and incremental iff the stream declares
\* incremental support; source_defined_cursor equals that flag; and
\* default_cursor_field is present iff the stream supports incremental and
\* has a cursor field.
C24_DiscoverCatalog ==
    dc_pc = "returned" =>
        /\ {dc_streams[i].name : i \in DOMAIN dc_streams}
              = {n \in StreamNames : dc_sync[n]}
        /\ \A i, j \in DOMAIN dc_streams :
              i < j => OrderIndex(dc_streams[i].name, 1) < OrderIndex(dc_streams[j].name, 1)
        /\ \A i \in DOMAIN dc_streams :
              LET sd == dc_streams[i]
                  class == StreamClass(sd.name)
                  incremental == class.supports_incremental
              IN  /\ sd.supported_sync_modes[1] = "full_refresh"
                  /\ InSeq("incremental", sd.supported_sync_modes) <=> incremental
                  /\ Len(sd.supported_sync_modes) = IF incremental THEN 2 ELSE 1
                  /\ sd.source_defined_cursor = incremental
                  /\ sd.default_cursor_field # NoValue
                        <=> (incremental /\ class.cursor_field # NoValue)
                  /\ sd.default_cursor_field # NoValue
                        => sd.default_cursor_field = <<class.cursor_field>>

\* discover() has returned with users, pages and comments enabled and the
\* other two switched off
C24_Witness ==
    /\ dc_pc = "returned"
    /\ dc_sync = [n \in StreamNames |-> n \in {"users", "pages", "comments"}]
    /\ Len(dc_streams) = 3

-----------------------------------------------------------------------------
(* Claims about the STATE messages and the order of the messages of read() *)

\* the positions of the STATE messages, and of those of one stream
StatePositions == {i \in DOMAIN ps_messages : ps_messages[i].type = "STATE"}
PositionsOf(stream_name) ==
    {i \in DOMAIN ps_messages : ps_messages[i].stream = stream_name}

C28_StateIsSnapshot ==
    \A i \in StatePositions : Payload(ps_messages[i]) = ps_messages[i].shown

\* a STATE message was yielded for the first stream, the second stream has
\* since completed, and the payload of the first message is no longer the
\* one it showed
C28_Witness ==
    /\ Len(ps_to_sync) = 2 /\ ps_pc = "done"
    /\ \E i, j \in StatePositions :
          /\ i < j
          /\ ps_messages[i].stream = ps_to_sync[1]
          /\ ps_messages[j].stream = ps_to_sync[2]
          /\ Payload(ps_messages[i]) # ps_messages[i].shown

\* C29: at every STATE message the payload's keys are the streams of this
\* pass that have produced a snapshot so far; no entry is ever removed, the
\* entry of a stream that completed earlier is that stream's final state,
\* and entries of the input state for streams not run are not included.
C29_StateKeys ==
    \A i \in StatePositions :
        LET m == ps_messages[i] IN
        /\ Keys(m.shown) = {ps_messages[j].stream : j \in {k \in StatePositions : k <= i}}
        /\ \A j \in StatePositions :
              j < i =>
                 /\ Keys(ps_messages[j].shown) \subseteq Keys(m.shown)
                 /\ (ps_messages[j].what = "final" /\ ps_messages[j].stream # m.stream)
                       => m.shown[ps_messages[j].stream]
                             = ps_messages[j].shown[ps_messages[j].stream]

\* with an input state that has entries for databases, pages and comments,
\* the databases stream completed in incremental mode with an advanced state
\* and the pages stream has yielded its final STATE after it
C29_Witness ==
    /\ ps_mode = "incremental" /\ ps_to_sync = <<"databases", "pages">>
    /\ ps_input["comments"] # Absent
    /\ \E i, j \in StatePositions :
          /\ i < j
          /\ ps_messages[i].stream = "databases" /\ ps_messages[i].what = "final"
          /\ ps_messages[i].shown["databases"] = "2024-01-15T10:30:01+00:00"
          /\ ps_messages[j].stream = "pages" /\ ps_messages[j].what = "final"

\* the RECORD messages among the messages at the positions ps
RECURSIVE RecordsIn(_)
RecordsIn(ps) ==
    IF ps = {} THEN 0
    ELSE LET i == CHOOSE k \in ps : TRUE IN
         (IF ps_messages[i].type = "RECORD" THEN ps_messages[i].count ELSE 0)
            + RecordsIn(ps \ {i})

-----------------------------------------------------------------------------
(* Claims about the requests of _paginate *)

\* the response request i was answered with
ResponseTo(i) == pg_pages[Served(pg_requests[i])]

\* the requests that were answered: all, but the last one when it raised
AnsweredRequests ==
    {i \in DOMAIN pg_requests : ~(pg_pc = "raised" /\ i = Len(pg_requests))}

\* C31: the first request carries page_size and no start_cursor; every later
\* request carries the next_cursor of the response right before it; request
\* i + 1 is sent only after every item of page i was handed to the consumer;
\* so once the consumer has stopped (the pages stream breaking in
\* incremental mode), no request beyond the page of the last item handed
\* over has been sent.
C31_RequestChain ==
    /\ \A i \in DOMAIN pg_requests :
          /\ pg_requests[i].page_size = page_size
          /\ i = 1 => pg_requests[i].start_cursor = NullCursor
          /\ i > 1 => /\ i - 1 \in AnsweredRequests
                      /\ pg_requests[i].start_cursor = ResponseTo(i - 1).next_cursor
                      /\ pg_requests[i].start_cursor # NullCursor
    /\ Len(pg_requests) >= 1 =>
          IsPrefix(Concat(pg_pages, Len(pg_requests) - 1), pg_yielded)
    /\ pg_pc = "closed" =>
          /\ pg_yielded # <<>>
          /\ Len(pg_requests) = pg_yielded[Len(pg_yielded)].page

\* the consumer stopped at an item of the second of three pages: two
\* requests were sent, the second with the cursor of the first response
C31_Witness ==
    /\ pg_pc = "closed"
    /\ Len(pg_pages) = 3
    /\ Len(pg_requests) = 2
    /\ pg_requests[2].start_cursor = pg_pages[1].next_cursor
    /\ Len(pg_yielded) = Len(pg_pages[1].results) + 1

-----------------------------------------------------------------------------
(* Claims about the order of get_all_blocks *)

\* block a lies above block b in the tree
RECURSIVE Above(_, _)
Above(a, b) ==
    /\ bt_parent[b] # RootBlock
    /\ (bt_parent[b] = a \/ Above(a, bt_parent[b]))

\* C32: get_all_blocks yields blocks in depth-first pre-order: every block
\* is yielded before any of its descendants, and all yielded descendants of
\* a block are yielded before that block's next sibling; the parent-id tag
\* of a yielded block is the id whose children listing returned it, and its
\* depth tag is its parent's depth tag + 1 (1 under the root).
C32_PreOrder ==
    \A i \in DOMAIN bt_yielded :
        LET y == bt_yielded[i] IN
        /\ Listed(y.parent_id)
        /\ \E k \in 1 .. Len(ChildrenOf(bt_parent, y.parent_id)) :
              ChildrenOf(bt_parent, y.parent_id)[k] = y.id
        /\ IF y.parent_id = RootBlock THEN y.depth = 1
           ELSE \E j \in 1 .. (i - 1) :
                   /\ bt_yielded[j].id = y.parent_id
                   /\ y.depth = bt_yielded[j].depth + 1
        /\ \A j \in DOMAIN bt_yielded :
              Above(y.id, bt_yielded[j].id) =>
                 /\ i < j
                 /\ \A k \in DOMAIN bt_yielded :
                       (k > i /\ bt_yielded[k].parent_id = y.parent_id) => j < k
        /\ \A j \in DOMAIN bt_yielded : j # i => bt_yielded[j].id # y.id

\* a traversal read to its end over a page with two blocks, the first of
\* which has a child: the child came between the two
C32_Witness ==
    /\ bt_pc = "done"
    /\ Len(bt_yielded) >= 3
    /\ \E i \in 1 .. (Len(bt_yielded) - 2) :
          /\ bt_yielded[i].parent_id = RootBlock
          /\ bt_yielded[i + 1].parent_id = bt_yielded[i].id
          /\ bt_yielded[i + 1].depth = 2
          /\ bt_yielded[i + 2].parent_id = RootBlock

-----------------------------------------------------------------------------
(* Claims about get_all_blocks over graphs with cycles *)

\* the longest children listing of the graph
Branching ==
    CHOOSE n \in 0 .. Cardinality(GraphBlocks) :
        /\ \E p \in DOMAIN gr_children : Len(gr_children[p]) = n
        /\ \A p \in DOMAIN gr_children : Len(gr_children[p]) <= n

\* 1 + b + ... + b^(d - 1): the frames a recursion of depth d and branching
\* b can have
RECURSIVE Frames(_, _)
Frames(b, d) == IF d = 0 THEN 0 ELSE 1 + b * Frames(b, d - 1)

\* block b can be reached from itself through the listings of flagged blocks
OnCycle(b) ==
    /\ gr_flag[b]
    /\ \/ \E i \in DOMAIN gr_children[b] : gr_children[b][i] = b
       \/ \E c \in GraphBlocks :
             /\ c # b /\ gr_flag[c]
             /\ \E i \in DOMAIN gr_children[b] : gr_children[b][i] = c
             /\ \E i \in DOMAIN gr_children[c] : gr_children[c][i] = b

\* how far the traversal is bounded
GraphBounded ==
    /\ \A i \in DOMAIN gr_listed : gr_listed[i].depth \in 1 .. gr_max_depth
    /\ \A i \in DOMAIN gr_yielded : gr_yielded[i].depth \in 1 .. gr_max_depth
    /\ Len(gr_listed) <= Frames(Branching, gr_max_depth)
    /\ Len(gr_stack) <= gr_max_depth

-----------------------------------------------------------------------------
(* Claims about a page of the blocks stream whose fetch fails *)

\* C33: in the blocks stream a page whose block fetch fails is skipped as a
\* whole: when the recursive fetch for a page raises after some of its
\* blocks were obtained, the output holds no block record of that page.
C33_FailedPageSkipped ==
    nb_stream.name = "blocks" =>
        \A i \in DOMAIN nb_pages :
            nb_pages[i].fetch = "fetch raised" =>
                \A j \in DOMAIN nb_emitted : nb_emitted[j].page_id # nb_pages[i].id

\* the fetch for a page of the blocks stream raised after a block of the
\* page was delivered and emitted, and the stream went on
C33_Witness ==
    /\ nb_stream.name = "blocks"
    /\ nb_pc \in {"pages", "done"}
    /\ \E i \in DOMAIN nb_pages :
          /\ nb_pages[i].fetch = "fetch raised"
          /\ \E j \in DOMAIN nb_emitted : nb_emitted[j].page_id = nb_pages[i].id
          /\ \E j \in DOMAIN nb_logged : nb_logged[j].page_id = nb_pages[i].id

-----------------------------------------------------------------------------
(* Claims about the state of the blocks and the comments stream *)

\* C34: a read pass of the blocks or comments stream never changes that
\* stream's own state, in either sync mode and whatever records were
\* emitted: every STATE entry emitted for blocks or comments equals the
\* input state supplied for that stream (empty if none), when it is yielded
\* and afterwards.
C34_ChildStateKept ==
    /\ \A i \in StatePositions :
          LET m == ps_messages[i] IN
          m.stream \in {"blocks", "comments"} =>
             /\ m.shown[m.stream] = StreamStateOf(m.stream, ps_input)
             /\ Payload(m)[m.stream] = StreamStateOf(m.stream, ps_input)
    /\ (ps_pc = "records" /\ ps_to_sync[ps_idx] \in {"blocks", "comments"}) =>
          ps_state = StreamStateOf(ps_to_sync[ps_idx], ps_input)

\* an incremental pass of the blocks stream with an input state yielded 100
\* records, an interim STATE and the final STATE, both with the input state
C34_Witness ==
    /\ ps_mode = "incremental"
    /\ ps_input["blocks"] = "2024-01-15T10:30:00+00:00"
    /\ \E i, j \in StatePositions :
          /\ i < j
          /\ ps_messages[i].stream = "blocks" /\ ps_messages[i].what = "interim"
          /\ ps_messages[j].stream = "blocks" /\ ps_messages[j].what = "final"
          /\ ps_messages[j].shown["blocks"] = "2024-01-15T10:30:00+00:00"

-----------------------------------------------------------------------------
(* Claims about the token after a refresh and about is_authenticated *)

\* C35: after a successful refresh_oauth_token every request sent on behalf
\* of the configuration, by the authenticator and by an API client that was
\* constructed from it before the refresh, carries the new access token: the
\* Authorization header equals "Bearer " + get_token() at the time of the
\* request.
C35_HeaderFollowsToken ==
    /\ au_request.after.token # NoToken =>
          au_request.authorization = au_request.after.token
    /\ au_client_request.authorization = au_client_request.token

\* a client was constructed, a refresh then installed a new access token,
\* and the client sent a request with the token it was constructed with
C35_Witness ==
    /\ au_credentials.access_token = "access 1"
    /\ au_client_request = [authorization |-> "access 0", token |-> "access 1"]

\* C36: after any sequence of validate() and refresh_oauth_token() calls,
\* is_authenticated is true if and only if the most recent validate()
\* succeeded and no refresh succeeded since; a validate() that fails after
\* an earlier success leaves is_authenticated false and
\* get_workspace_info() absent.
C36_FlagTracksValidate ==
    /\ au_authenticated <=> au_valid
    /\ ~au_valid => get_workspace_info(au_authenticated, au_bot_info) = NoValue

\* a validate() answered 401 on an authenticator that had validated before:
\* is_authenticated is still true and the workspace info is still given
C36_Witness ==
    /\ au_last.op = "validate" /\ au_last.met = MeResponse(401, "empty")
    /\ ~au_last.ended.success
    /\ au_before.authenticated
    /\ au_authenticated
    /\ get_workspace_info(au_authenticated, au_bot_info) # NoValue

-----------------------------------------------------------------------------
(* Claims about the read command of the command line *)

\* every record of the listing, as the stream emits it
AllListed == [i \in 1 .. Len(st_remote) |-> TransformRecord(st_remote[i])]

=============================================================================
